---- MODULE Spec2Model ----
(***************************************************************************)
(* A model of the computation blocks of fwumious_wabbit: the FFM block,   *)
(* the logistic loss block, the copy / const / result blocks and the      *)
(* neuron layer, as state machines over the port buffer and the weight    *)
(* tables.                                                                 *)
(*                                                                         *)
(* Numbers.  f32 values are modelled by integers with exact arithmetic.   *)
(* Multiplying by 0.5 is exact in binary floating point; it stays exact   *)
(* here because FFM weights are even integers (Half is an exact division).*)
(* Probabilities and the loss gradient are fixed-point numbers with One   *)
(* units per 1.0.  A NaN is only ever met by the loss block, whose input  *)
(* cells are records [nan, v].                                            *)
(***************************************************************************)
EXTENDS Integers, Sequences, FiniteSets, TLC

VARIABLES
    \* ---- the block graph of a regressor (FFM graph or neuron-layer graph)
    mi,          \* model_instance::ModelInstance the graph was built from
    weights,     \* the weights of the block that owns weights
    optimizer,   \* its per-weight optimizer_data
    fb,          \* feature_buffer::FeatureBuffer of the current example
    tape,        \* pb.tape, the regions of the blocks
    results,     \* pb.results of the current call
    pc,          \* position inside the call chain
    update,      \* the `update` argument of the running forward_backward
    local_data_ffm_values, \* gradient cache of the running BlockFFM::forward_backward
    num_learns,  \* number of calls that went through the update branch
    w_entry,     \* history: weights when the current call was entered
    opt_entry,   \* history: optimizer when the current call was entered
    stable_pred, \* history: prediction of the first call since the last update
    \* ---- the logistic loss block on its own
    sg_in,       \* its input tape
    sg_out,      \* its output tape
    sg_results,  \* pb.results
    sg_fb,       \* label and example_importance of the example
    sg_pc,       \* which method has run
    sg_entry,    \* history: the input tape when the method was entered
    \* ---- the copy block between a const block and two result blocks
    cp_cfg,      \* the constants and the two replace_input_with values
    cp_in,       \* the input tape of the copy block
    cp_out,      \* the output tape of the copy block
    cp_results,  \* pb.results
    cp_pc,       \* position inside the call chain
    cp_update,   \* the `update` argument of the running forward_backward
    cp_g1,       \* history: the input region as the consumers left it
    cp_g2,       \* history: the output region as the consumers left it
    \* ---- weight initialisation, run twice
    in_cfg,      \* the model configuration and the block it is for
    in_run1,     \* the weight table after the first run
    in_run2,     \* the weight table after the second run
    in_pc,       \* how many runs were made
    \* ---- the vowpal parser
    tmp_read_buf,   \* VowpalParser.tmp_read_buf
    output_buffer,  \* VowpalParser.output_buffer
    ps_result,      \* what the last call returned
    ps_call,        \* which method the last call was
    ps_src,         \* history: the bytes the last call read from its input
    ps_before,      \* history: tmp_read_buf when the last call was entered
    ps_prev,        \* history: what the call before the last returned
    ps_input,       \* the inputs of the calls to come
    \* ---- the hogwild trainer and its workers
    hw_channel,     \* the feature buffers sent and not yet received
    hw_sender,      \* HogwildTrainer.sender: "alive" or "dropped"
    hw_next,        \* the next feature buffer digest_example is given
    hw_pc,          \* position of each worker inside HogwildWorker::train
    hw_poisoned,    \* whether the mutex around the receiver is poisoned
    hw_held,        \* the feature buffer each worker is learning
    hw_log,         \* history: the feature buffers each worker learned, in order
    hw_port,        \* each worker's port_buffer
    hw_weights,     \* the weights the workers' regressors share
    hw_reg,         \* the weight each worker has read and not yet written back
    \* ---- a chain of blocks without weights
    ch_blocks,      \* the blocks of the chain, first to last
    ch_update,      \* the `update` argument of the call
    ch_tape,        \* pb.tape
    ch_pos,         \* the block whose step is next
    ch_phase,       \* whether the call is descending or returning
    ch_trace,       \* history: the steps made, in order
    \* ---- the memory the FFM kernels touch
    ac_self,        \* the BlockFFM: ffm_k, ffm_num_fields, output_offset
    ac_fb,          \* the feature buffer of the call
    ac_call,        \* which method has run
    ac_buffer,      \* the positions of fb.ffm_buffer the call accessed
    ac_tape,        \* the cells of pb.tape the call wrote
    ac_contra,      \* the cells of contra_fields the call touched
    \* ---- the normalize block
    nm_self,        \* the BlockNormalize: num_inputs, input_offset, output_offset
    nm_tape,        \* pb.tape
    nm_pc,          \* position inside forward / forward_backward
    nm_update,      \* the `update` argument of the running forward_backward
    nm_variance_inv,\* the local variance_inv (var3) of the running call
    nm_entry        \* history: pb.tape when the call was entered

graphVars == <<mi, weights, optimizer, fb, tape, results, pc, update,
               local_data_ffm_values, num_learns, w_entry, opt_entry, stable_pred>>

lossVars == <<sg_in, sg_out, sg_results, sg_fb, sg_pc, sg_entry>>

copyVars == <<cp_cfg, cp_in, cp_out, cp_results, cp_pc, cp_update, cp_g1, cp_g2>>

initVars == <<in_cfg, in_run1, in_run2, in_pc>>

parserVars == <<tmp_read_buf, output_buffer, ps_result, ps_call, ps_src, ps_before, ps_prev,
                ps_input>>

hogVars == <<hw_channel, hw_sender, hw_next, hw_pc, hw_poisoned, hw_held, hw_log, hw_port,
             hw_weights, hw_reg>>

chainVars == <<ch_blocks, ch_update, ch_tape, ch_pos, ch_phase, ch_trace>>

accessVars == <<ac_self, ac_fb, ac_call, ac_buffer, ac_tape, ac_contra>>

normVars == <<nm_self, nm_tape, nm_pc, nm_update, nm_variance_inv, nm_entry>>

moreVars == <<accessVars, normVars>>

extraVars == <<parserVars, hogVars, chainVars, moreVars>>

otherVars == <<lossVars, copyVars, initVars, extraVars>>

vars == <<graphVars, lossVars, copyVars, initVars, extraVars>>

\* The value of the variables of a part that is not built
GraphOff ==
    /\ mi = [graph |-> "none"]
    /\ weights = <<>> /\ optimizer = <<>> /\ fb = <<>> /\ tape = <<>>
    /\ results = <<>> /\ pc = "off" /\ update = FALSE
    /\ local_data_ffm_values = <<>> /\ num_learns = 0
    /\ w_entry = <<>> /\ opt_entry = <<>> /\ stable_pred = <<>>

LossOff ==
    /\ sg_in = <<>> /\ sg_out = <<>> /\ sg_results = <<>>
    /\ sg_fb = <<>> /\ sg_pc = "off" /\ sg_entry = <<>>

CopyOff ==
    /\ cp_cfg = <<>> /\ cp_in = <<>> /\ cp_out = <<>> /\ cp_results = <<>>
    /\ cp_pc = "off" /\ cp_update = FALSE /\ cp_g1 = <<>> /\ cp_g2 = <<>>

InitOff ==
    /\ in_cfg = <<>> /\ in_run1 = <<>> /\ in_run2 = <<>> /\ in_pc = "off"

ParserOff ==
    /\ tmp_read_buf = <<>> /\ output_buffer = <<>> /\ ps_result = <<>>
    /\ ps_call = "off" /\ ps_src = <<>> /\ ps_before = <<>> /\ ps_prev = <<>>
    /\ ps_input = <<>>

HogwildOff ==
    /\ hw_channel = <<>> /\ hw_sender = "off" /\ hw_next = 0 /\ hw_pc = <<>>
    /\ hw_poisoned = FALSE /\ hw_held = <<>> /\ hw_log = <<>> /\ hw_port = <<>>
    /\ hw_weights = <<>> /\ hw_reg = <<>>

ChainOff ==
    /\ ch_blocks = <<>> /\ ch_update = FALSE /\ ch_tape = <<>> /\ ch_pos = 0
    /\ ch_phase = "off" /\ ch_trace = <<>>

AccessOff ==
    /\ ac_self = <<>> /\ ac_fb = <<>> /\ ac_call = "off"
    /\ ac_buffer = {} /\ ac_tape = {} /\ ac_contra = {}

NormOff ==
    /\ nm_self = <<>> /\ nm_tape = <<>> /\ nm_pc = "off" /\ nm_update = FALSE
    /\ nm_variance_inv = <<>> /\ nm_entry = <<>>

MoreOff == AccessOff /\ NormOff

ExtraOff == ParserOff /\ HogwildOff /\ ChainOff /\ MoreOff

(***************************************************************************)
(* Bounds of the model.                                                    *)
(***************************************************************************)
MaxFeatures == 3
MaxLearns == 1
MaxWeight == 1000
MaxInputs == 2

(***************************************************************************)
(* Helpers.                                                                *)
(***************************************************************************)
STEP == 4

Half(x) == x \div 2

RECURSIVE SumFn(_)
SumFn(f) ==
    IF DOMAIN f = {} THEN 0
    ELSE LET x == CHOOSE y \in DOMAIN f : TRUE
         IN f[x] + SumFn([y \in DOMAIN f \ {x} |-> f[y]])

\* The cells visited by `for x in a..b`
ScalarRange(a, b) == a..(b - 1)

\* The cells visited by `for x in (a..b).step_by(STEP)` when each step handles x..x+STEP
LaneRange(a, b) ==
    UNION {x..(x + STEP - 1) : x \in {y \in a..(b - 1) : (y - a) % STEP = 0}}

\* A read of a stack buffer created by MaybeUninit::uninit().assume_init():
\* a cell that was never written holds whatever the stack held, `u`.
ReadCell(buf, i, u) == IF i \in DOMAIN buf THEN buf[i] ELSE u

(***************************************************************************)
(* BlockFFM::forward_backward, the training kernel.                        *)
(* A feature is [hash, value, contra_field_index]; buf is fb.ffm_buffer,   *)
(* m is fb.ffm_fields_count, k is ffm_k, w is the weight table and u the   *)
(* content of uninitialised stack cells.                                   *)
(***************************************************************************)

\* The coordinates of one embedding: the scalar prefix, then the lanes
FB_Coords(k) == ScalarRange(0, k % STEP) \cup LaneRange(k % STEP, k)

\* Variant: the column of an empty field is left as the stack held it
FB_ZeroField_skipped(contra, field_index_ffmk, m, k) == contra

\* A field with no features: its column of every contra vector is zeroed
FB_ZeroField(contra, field_index_ffmk, m, k) ==
    LET ffmk_start == k % STEP
        fc == m * k
        cells == UNION {ScalarRange(field_index_ffmk + z * fc,
                                    field_index_ffmk + z * fc + ffmk_start)
                        \cup LaneRange(field_index_ffmk + z * fc + ffmk_start,
                                       field_index_ffmk + z * fc + k)
                        : z \in 0..(m - 1)}
    IN  [c \in cells |-> 0] @@ contra

\* One feature of a field: the first one overwrites, the others add
FB_AddFeature(w, contra, feature, field_index_ffmk, m, k, feature_num, u) ==
    LET fc == m * k
        cells == {field_index_ffmk + z * fc + kk : z \in 0..(m - 1), kk \in FB_Coords(k)}
        zOf(c) == (c - field_index_ffmk) \div fc
        kOf(c) == (c - field_index_ffmk) % fc
    IN  [c \in cells |->
            (IF feature_num = 0 THEN 0 ELSE ReadCell(contra, c, u))
            + w[feature.hash + zOf(c) * k + kOf(c)] * feature.value] @@ contra

\* while ffm_buffer_index < len && contra_field_index == field_index_ffmk
RECURSIVE FB_FeatureLoop(_, _, _, _, _, _, _, _)
FB_FeatureLoop(w, buf, m, k, u, field_index_ffmk, feature_num, st) ==
    IF st.idx < Len(buf) /\ buf[st.idx + 1].contra_field_index = field_index_ffmk
    THEN FB_FeatureLoop(w, buf, m, k, u, field_index_ffmk, feature_num + 1,
            [contra |-> FB_AddFeature(w, st.contra, buf[st.idx + 1], field_index_ffmk,
                                      m, k, feature_num, u),
             idx |-> st.idx + 1])
    ELSE st

\* for field_index in 0..ffm_fields_count
RECURSIVE FB_FieldLoop(_, _, _, _, _, _, _)
FB_FieldLoop(w, buf, m, k, u, field_index, st) ==
    IF field_index >= m THEN st
    ELSE LET field_index_ffmk == field_index * k
         IN  IF st.idx >= Len(buf)
                \/ buf[st.idx + 1].contra_field_index > field_index_ffmk
             THEN FB_FieldLoop(w, buf, m, k, u, field_index + 1,
                    [st EXCEPT !.contra = FB_ZeroField(@, field_index_ffmk, m, k)])
             ELSE FB_FieldLoop(w, buf, m, k, u, field_index + 1,
                    FB_FeatureLoop(w, buf, m, k, u, field_index_ffmk, 0, st))

\* contra_fields after the first pass (transposed: [target field][source field])
FB_contra_fields(w, buf, m, k, u) ==
    FB_FieldLoop(w, buf, m, k, u, 0, [contra |-> <<>>, idx |-> 0]).contra

\* Variant: the feature's own weight is not taken out of its field's sum
FB_gradient_with_self(w, contra, feature, m, k, z, kk, u) ==
    feature.value * ReadCell(contra, feature.contra_field_index * m + z * k + kk, u)

\* Variant: the gradient is not scaled by the value of the feature
FB_gradient_unscaled(w, contra, feature, m, k, z, kk, u) ==
    ReadCell(contra, feature.contra_field_index * m + z * k + kk, u)
    - (IF z * k = feature.contra_field_index THEN w[feature.hash + z * k + kk] * feature.value
       ELSE 0)

\* The gradient cached for coordinate kk of feature `feature` against field z
FB_gradient(w, contra, feature, m, k, z, kk, u) ==
    LET vv == z * k
        contra_offset == feature.contra_field_index * m
        vv_feature_index == feature.hash + vv
        vv_contra_offset == contra_offset + vv
        contra_weight ==
            IF vv = feature.contra_field_index
            THEN ReadCell(contra, vv_contra_offset + kk, u)
                 - w[vv_feature_index + kk] * feature.value
            ELSE ReadCell(contra, vv_contra_offset + kk, u)
    IN  feature.value * contra_weight

FB_correction(w, contra, feature, m, k, z, u) ==
    SumFn([kk \in FB_Coords(k) |->
            w[feature.hash + z * k + kk] * FB_gradient(w, contra, feature, m, k, z, kk, u)])

\* The output cell `*myslice.get_unchecked_mut(contra_offset2 + z)` of feature i, field z
FB_target(buf, m, k, i, z) == ((buf[i].contra_field_index * m) \div k) + z

\* myslice after the second pass: filled with 0.0, then += correction * 0.5
FB_myslice(w, contra, buf, m, k, num_outputs, u) ==
    LET pairs == (1..Len(buf)) \X (0..(m - 1))
        cells == (0..(num_outputs - 1)) \cup {FB_target(buf, m, k, p[1], p[2]) : p \in pairs}
    IN  [c \in cells |->
            SumFn([p \in {q \in pairs : FB_target(buf, m, k, q[1], q[2]) = c} |->
                    Half(FB_correction(w, contra, buf[p[1]], m, k, p[2], u))])]

\* local_data_ffm_values after the second pass
FB_local_data_ffm_values(w, contra, buf, m, k, u) ==
    [x \in 0..(Len(buf) * m * k - 1) |->
        LET i == (x \div (m * k)) + 1
            z == (x % (m * k)) \div k
            kk == x % k
        IN  FB_gradient(w, contra, buf[i], m, k, z, kk, u)]

(***************************************************************************)
(* BlockFFM::forward, the prediction kernel.  nf is self.ffm_num_fields,   *)
(* fel is self.field_embedding_len; out is myslice, st.idx is              *)
(* ffm_buffer_index.                                                       *)
(***************************************************************************)

\* The cells of one collapsed field embedding: the lanes, then the scalar tail
Fwd_Cells(fel) == LaneRange(0, fel - (fel % STEP)) \cup ScalarRange(fel - (fel % STEP), fel)

\* A field with no features: its collapsed embedding is zeroed
Fwd_ZeroField(contra, offset, fel) ==
    LET field_embedding_len_end == fel - (fel % STEP)
        cells == LaneRange(offset, offset + field_embedding_len_end)
                 \cup ScalarRange(offset + field_embedding_len_end, offset + fel)
    IN  [c \in cells |-> 0] @@ contra

\* One feature of a field is added to the collapsed embedding of its field
Fwd_AddFeature(w, contra, feature, offset, fel, feature_num, u) ==
    [c \in {offset + z : z \in Fwd_Cells(fel)} |->
        (IF feature_num = 0 THEN 0 ELSE ReadCell(contra, c, u))
        + w[feature.hash + (c - offset)] * feature.value] @@ contra

\* Variant: the self-interaction stays in the diagonal cell
Fwd_SelfCorrection_kept(w, out, feature, field_index_ffmk, m, k) == out

\* The self-interaction of one feature, pre-subtracted from the diagonal cell
Fwd_SelfCorrection(w, out, feature, field_index_ffmk, m, k) ==
    LET feature_field_index == feature.hash + field_index_ffmk
        correction == SumFn([kk \in 0..(k - 1) |->
                                w[feature_field_index + kk] * w[feature_field_index + kk]])
        cell == (feature.contra_field_index \div k) * (m + 1)
    IN  (cell :> (ReadCell(out, cell, 0)
                  - Half(correction) * feature.value * feature.value)) @@ out

RECURSIVE Fwd_FeatureLoop(_, _, _, _, _, _, _, _)
Fwd_FeatureLoop(self, buf, m, u, field_index_ffmk, offset, feature_num, st) ==
    IF st.idx < Len(buf) /\ buf[st.idx + 1].contra_field_index = field_index_ffmk
    THEN Fwd_FeatureLoop(self, buf, m, u, field_index_ffmk, offset, feature_num + 1,
            [contra |-> Fwd_AddFeature(self.weights, st.contra, buf[st.idx + 1], offset,
                                       self.field_embedding_len, feature_num, u),
             out |-> Fwd_SelfCorrection(self.weights, st.out, buf[st.idx + 1],
                                        field_index_ffmk, m, self.ffm_k),
             idx |-> st.idx + 1])
    ELSE st

RECURSIVE Fwd_FieldLoop(_, _, _, _, _, _)
Fwd_FieldLoop(self, buf, m, u, field_index, st) ==
    IF field_index >= m THEN st
    ELSE LET field_index_ffmk == field_index * self.ffm_k
             offset == field_index_ffmk * m
         IN  IF st.idx >= Len(buf)
                \/ buf[st.idx + 1].contra_field_index > field_index_ffmk
             THEN Fwd_FieldLoop(self, buf, m, u, field_index + 1,
                    [st EXCEPT !.contra = Fwd_ZeroField(@, offset, self.field_embedding_len)])
             ELSE Fwd_FieldLoop(self, buf, m, u, field_index + 1,
                    Fwd_FeatureLoop(self, buf, m, u, field_index_ffmk, offset, 0, st))

\* Dot product of two k-long runs of contra_fields
Fwd_Dot(contra, a, b, k, u) ==
    SumFn([kk \in 0..(k - 1) |-> ReadCell(contra, a + kk, u) * ReadCell(contra, b + kk, u)])

\* for f2 in f1 + 1..ffm_fields_count: both mirrored cells get half the dot product
RECURSIVE Fwd_PairLoop(_, _, _, _, _, _, _)
Fwd_PairLoop(self, contra, m, u, f1, f2, out) ==
    IF f2 >= m THEN out
    ELSE LET fel == self.field_embedding_len
             k == self.ffm_k
             f1_offset_ffmk == f1 * fel + f1 * k + (f2 - f1) * k
             f2_offset_ffmk == f1 * fel + f1 * k + (f2 - f1) * fel
             f1_index == f1 * m + f2
             f2_index == (f1 * m + (f2 - f1) * m) + f1
             contra_field == Half(Fwd_Dot(contra, f1_offset_ffmk, f2_offset_ffmk, k, u))
             out1 == (f1_index :> (ReadCell(out, f1_index, 0) + contra_field)) @@ out
             out2 == (f2_index :> (ReadCell(out1, f2_index, 0) + contra_field)) @@ out1
         IN  Fwd_PairLoop(self, contra, m, u, f1, f2 + 1, out2)

\* for f1 in 0..ffm_fields_count: the diagonal cell, then the pairs
RECURSIVE Fwd_InteractionLoop(_, _, _, _, _, _)
Fwd_InteractionLoop(self, contra, m, u, f1, out) ==
    IF f1 >= m THEN out
    ELSE LET fel == self.field_embedding_len
             k == self.ffm_k
             f1_offset_ffmk == f1 * fel + f1 * k
             v == Fwd_Dot(contra, f1_offset_ffmk, f1_offset_ffmk, k, u)
             cell == f1 * m + f1
             out1 == (cell :> (ReadCell(out, cell, 0) + Half(v))) @@ out
         IN  Fwd_InteractionLoop(self, contra, m, u, f1 + 1,
                Fwd_PairLoop(self, contra, m, u, f1, f1 + 1, out1))

\* myslice when BlockFFM::forward hands over to the further blocks
Fwd_myslice(self, buf, m, u) ==
    LET num_outputs == self.ffm_num_fields * self.ffm_num_fields
        st == Fwd_FieldLoop(self, buf, m, u, 0,
                [contra |-> <<>>, out |-> [c \in 0..(num_outputs - 1) |-> 0], idx |-> 0])
    IN  Fwd_InteractionLoop(self, st.contra, m, u, 0, st.out)

\* myslice when BlockFFM::forward_backward hands over to the further blocks
FB_forward(self, buf, m, u) ==
    LET contra == FB_contra_fields(self.weights, buf, m, self.ffm_k, u)
    IN  [myslice |-> FB_myslice(self.weights, contra, buf, m, self.ffm_k,
                                self.ffm_num_fields * self.ffm_num_fields, u),
         local_data_ffm_values |->
             FB_local_data_ffm_values(self.weights, contra, buf, m, self.ffm_k, u)]

(***************************************************************************)
(* The optimizer family (optimizer.rs is not part of the sources at hand: *)
(* modelled from its description).  power_t is 0 throughout, so that      *)
(* AdagradFlex divides by accumulator^0 = 1.                               *)
(***************************************************************************)
initial_data(opt, init_acc_gradient) == IF opt = "SGD" THEN 0 ELSE init_acc_gradient

calculate_update(opt, learning_rate, gradient, data) ==
    [update |-> gradient * learning_rate,
     data |-> IF opt = "SGD" THEN data ELSE data + gradient * gradient]

(***************************************************************************)
(* BlockFFM::forward_backward, the backward step (if update).              *)
(***************************************************************************)
RECURSIVE FFM_UpdateLoop(_, _, _, _, _, _, _)
FFM_UpdateLoop(cfg, buf, m, myslice, local, local_index, st) ==
    LET k == cfg.ffm_k
    IN  IF local_index >= Len(buf) * m * k THEN st
        ELSE LET feature == buf[(local_index \div (m * k)) + 1]
                 z == (local_index % (m * k)) \div k
                 feature_index == feature.hash + (local_index % (m * k))
                 contra_offset == (feature.contra_field_index * m) \div k
                 general_gradient == myslice[contra_offset + z]
                 gradient == general_gradient * local[local_index]
                 r == calculate_update(cfg.optimizer, cfg.ffm_learning_rate, gradient,
                                       st.optimizer[feature_index])
             IN  FFM_UpdateLoop(cfg, buf, m, myslice, local, local_index + 1,
                    [weights |-> [st.weights EXCEPT ![feature_index] = @ - r.update],
                     optimizer |-> [st.optimizer EXCEPT ![feature_index] = r.data]])

\* Variant: the weights are updated whatever `update` says
FFM_update_always(cfg, buf, m, myslice, local, upd, st) ==
    FFM_UpdateLoop(cfg, buf, m, myslice, local, 0, st)

\* if update { ... }: the weights and optimizer data after the backward step
FFM_update(cfg, buf, m, myslice, local, upd, st) ==
    IF upd THEN FFM_UpdateLoop(cfg, buf, m, myslice, local, 0, st) ELSE st

(***************************************************************************)
(* merand48 (an external crate): a linear congruential generator seeded   *)
(* by its argument, giving a number in [0, 1); here 3 bits of state, the  *)
(* upper 2 returned, so RandOne units make 1.0.                            *)
(***************************************************************************)
RandOne == 4

merand48(seed) == ((seed * 5 + 3) % 8) \div 2

(***************************************************************************)
(* BlockFFM::allocate_and_init_weights.  Weights are counted in units of  *)
(* the scale factor over 2 * RandOne (the scale factor is                 *)
(* ffm_one_over_k_root in the default mode and 1 in the explicit mode,    *)
(* where ffm_init_zero_band is counted in halves and ffm_init_width is    *)
(* even), which makes every weight an even integer.                        *)
(***************************************************************************)
ffm_weights_len(cfg) == (2 ^ cfg.ffm_bit_precision) + cfg.ffm_num_fields * cfg.ffm_k

FFM_init_weight(cfg, i) ==
    IF cfg.ffm_init_width = 0
    THEN 2 * merand48(ffm_weights_len(cfg) + i) - RandOne
    ELSE LET zero_half_band_width == Half(cfg.ffm_init_width * cfg.ffm_init_zero_band)
             band_width == cfg.ffm_init_width * (2 - cfg.ffm_init_zero_band)
             w == merand48(i) * band_width - Half(band_width) * RandOne
         IN  (IF w > 0 THEN w + zero_half_band_width * RandOne
                       ELSE w - zero_half_band_width * RandOne)
             + cfg.ffm_init_center * 2 * RandOne

FFM_allocate_and_init_weights(cfg) ==
    [weights |-> [i \in 0..(ffm_weights_len(cfg) - 1) |->
                    IF cfg.ffm_k > 0 THEN FFM_init_weight(cfg, i) ELSE 0],
     optimizer |-> [i \in 0..(ffm_weights_len(cfg) - 1) |->
                    initial_data(cfg.optimizer, cfg.ffm_init_acc_gradient)]]

(***************************************************************************)
(* The logistic loss block (BlockSigmoid).  The cells of its input region *)
(* are [nan |-> BOOLEAN, v |-> Int].                                       *)
(***************************************************************************)
NaN == [nan |-> TRUE, v |-> 0]

Num(x) == [nan |-> FALSE, v |-> x]

FAdd(a, b) == IF a.nan \/ b.nan THEN NaN ELSE Num(a.v + b.v)

\* myslice.iter().sum()
RECURSIVE FSum(_)
FSum(cells) == IF cells = <<>> THEN Num(0) ELSE FAdd(Head(cells), FSum(Tail(cells)))

\* 1.0 in the fixed point of probabilities
One == 2

\* (1.0 + (-t).exp()).recip(), rounded to the nearest 1 / One:
\* 0.12 -> 0, 0.27 .. 0.73 -> 0.5, 0.88 -> 1
logistic(t) ==
    IF t <= -2 THEN 0
    ELSE IF t >= 2 THEN One
    ELSE One \div 2

\* Variant: the gradient is not zeroed when the sum is NaN or clamped
Sigmoid_forward_backward_unzeroed(cells, label, example_importance) ==
    LET wsum == FSum(cells)
        p == IF wsum.nan THEN logistic(0)
             ELSE IF wsum.v < -50 THEN logistic(-50)
             ELSE IF wsum.v > 50 THEN logistic(50)
             ELSE logistic(wsum.v)
    IN  [prediction_probability |-> p,
         general_gradient |-> (0 - (label * One - p)) * example_importance]

\* BlockSigmoid::forward_backward: the prediction and the gradient of the log loss
Sigmoid_forward_backward(cells, label, example_importance) ==
    LET wsum == FSum(cells)
    IN  IF wsum.nan
        THEN [prediction_probability |-> logistic(0), general_gradient |-> 0]
        ELSE IF wsum.v < -50
        THEN [prediction_probability |-> logistic(-50), general_gradient |-> 0]
        ELSE IF wsum.v > 50
        THEN [prediction_probability |-> logistic(50), general_gradient |-> 0]
        ELSE [prediction_probability |-> logistic(wsum.v),
              general_gradient |->
                  (0 - (label * One - logistic(wsum.v))) * example_importance]

\* Variant: a NaN sum is not looked for and ends in the upper clamp
Sigmoid_forward_nan_unchecked(cells) ==
    LET wsum == FSum(cells)
    IN  IF ~wsum.nan /\ wsum.v < -50 THEN logistic(-50)
        ELSE IF wsum.nan \/ wsum.v > 50 THEN logistic(50)
        ELSE logistic(wsum.v)

\* BlockSigmoid::forward: the prediction
Sigmoid_forward(cells) ==
    LET wsum == FSum(cells)
    IN  IF wsum.nan THEN logistic(0)
        ELSE IF wsum.v < -50 THEN logistic(-50)
        ELSE IF wsum.v > 50 THEN logistic(50)
        ELSE logistic(wsum.v)

(***************************************************************************)
(* BlockNeuronLayer.  self carries num_inputs, num_neurons, neuron_type,   *)
(* init_type, dropout, max_norm (dropout in RandOne units per 1.0) and the *)
(* optimizer settings; the layer reads pb.tape at input_offset = 0 and    *)
(* writes it at output_offset = num_inputs.  A weight of 1.0 is 1.         *)
(***************************************************************************)
NL_weights_len(self) == (self.num_inputs + 1) * self.num_neurons

NL_bias_offset(self) == self.num_inputs * self.num_neurons

\* The weight of cell i after allocate_and_init_weights; sample[i] is what
\* normal.sample(&mut rand::thread_rng()) returned for cell i
NL_init_weight(self, i, sample) ==
    IF i >= NL_bias_offset(self) THEN 0
    ELSE IF self.init_type = "Random" THEN sample[i]
    ELSE IF self.init_type = "RandomFirstNeuron1"
         THEN (IF i < self.num_inputs THEN 1 ELSE sample[i])
    ELSE IF self.init_type = "RandomFirstNeuron10"
         THEN (IF i = 0 THEN 1 ELSE IF i < self.num_inputs THEN 0 ELSE sample[i])
    ELSE 1

NL_allocate_and_init_weights(self, sample) ==
    [weights |-> [i \in 0..(NL_weights_len(self) - 1) |-> NL_init_weight(self, i, sample)],
     optimizer |-> [i \in 0..(NL_weights_len(self) - 1) |->
                        initial_data(self.optimizer, self.init_acc_gradient)]]

\* Values thread_rng may deliver, and the draws of one initialisation
NormalSamples == {-3, 4}

NL_Samples(self) == [0..(NL_bias_offset(self) - 1) -> NormalSamples]

\* self.dropout == 0.0 || merand48(j as u64 + frandseed) > self.dropout
NL_kept(self, example, j) ==
    \/ self.dropout = 0
    \/ merand48(j + example.example_number * example.example_number) > self.dropout

\* The forward stage for neuron j
NL_output(self, w, tp, example, upd, j) ==
    LET wsum == IF NL_kept(self, example, j)
                THEN w[NL_bias_offset(self) + j]
                     + SumFn([i \in 0..(self.num_inputs - 1) |->
                                tp[i] * w[i + j * self.num_inputs]])
                ELSE 0
    IN  IF ~upd THEN (wsum * (RandOne - self.dropout)) \div RandOne ELSE wsum

\* Variant: the gradient of a weight ignores the input it multiplies
NL_gradient_of_bias(general_gradient, feature_value) == general_gradient

\* let gradient = general_gradient * feature_value
NL_gradient(general_gradient, feature_value) == general_gradient * feature_value

RECURSIVE ISqrtFrom(_, _)
ISqrtFrom(n, r) == IF r * r <= n THEN r ELSE ISqrtFrom(n, (r + n \div r) \div 2)

\* The integer part of the square root
ISqrt(n) == IF n <= 0 THEN 0 ELSE ISqrtFrom(n, IF n > 46340 THEN 46340 ELSE n)

\* The least integer that is not below the square root
ISqrtUp(n) == IF ISqrt(n) * ISqrt(n) = n THEN ISqrt(n) ELSE ISqrt(n) + 1

\* weight *= scaling with scaling = max_norm / norm, rounded towards zero:
\* the product never gains magnitude
NL_scaled(w, max_norm, norm) ==
    IF w < 0 THEN 0 - (((0 - w) * max_norm) \div norm) ELSE (w * max_norm) \div norm

\* if self.max_norm != 0.0 && fb.example_number % 10 == 0 { ... }: the
\* weights of neuron j are scaled by max_norm / norm
NL_max_norm(self, example, w, j) ==
    LET cells == {i + j * self.num_inputs : i \in 0..(self.num_inputs - 1)}
        wsumsquared == SumFn([c \in cells |-> w[c] * w[c]])
        norm == ISqrtUp(wsumsquared)
    IN  IF self.max_norm # 0 /\ example.example_number % 10 = 0
           /\ wsumsquared > self.max_norm * self.max_norm
        THEN [c \in cells |-> NL_scaled(w[c], self.max_norm, norm)] @@ w
        ELSE w

\* The weights, optimizer data and output_errors after neuron j was handled
NL_neuron(self, example, tp, j, st) ==
    LET general_gradient == tp[self.num_inputs + j]
        j_offset == j * self.num_inputs
        bias == NL_bias_offset(self) + j
        cells == {i + j_offset : i \in 0..(self.num_inputs - 1)}
        r(c) == IF c = bias
                THEN calculate_update(self.optimizer, self.learning_rate,
                                      NL_gradient(general_gradient, 1), st.optimizer[c])
                ELSE calculate_update(self.optimizer, self.learning_rate,
                                      NL_gradient(general_gradient, tp[c - j_offset]),
                                      st.optimizer[c])
        touched == cells \cup {bias}
    IN  [weights |-> NL_max_norm(self, example,
                        [c \in touched |-> st.weights[c] - r(c).update] @@ st.weights, j),
         optimizer |-> [c \in touched |-> r(c).data] @@ st.optimizer,
         output_errors |-> [i \in 0..(self.num_inputs - 1) |->
                               st.output_errors[i] + st.weights[i + j_offset] * general_gradient]]

\* for j in 0..self.num_neurons
RECURSIVE NL_NeuronLoop(_, _, _, _, _)
NL_NeuronLoop(self, example, tp, j, st) ==
    IF j >= self.num_neurons THEN st
    ELSE NL_NeuronLoop(self, example, tp, j + 1,
            IF NL_kept(self, example, j) THEN NL_neuron(self, example, tp, j, st) ELSE st)

\* if update { if self.neuron_type == NeuronType::WeightedSum { ... } }
NL_backward(self, example, tp, upd, w, o) ==
    IF upd /\ self.neuron_type = "WeightedSum"
    THEN LET st == NL_NeuronLoop(self, example, tp, 0,
                     [weights |-> w, optimizer |-> o,
                      output_errors |-> [i \in 0..(self.num_inputs - 1) |-> 0]])
         IN  [weights |-> st.weights, optimizer |-> st.optimizer,
              tape |-> [i \in 0..(self.num_inputs - 1) |-> st.output_errors[i]] @@ tp]
    ELSE [weights |-> w, optimizer |-> o, tape |-> tp]

(***************************************************************************)
(* BlockCopy.  Tapes are sequences; the block works on the last            *)
(* num_inputs cells of its input tape and appends as many to its output    *)
(* tape.                                                                   *)
(***************************************************************************)
\* resize_with(original_size + num_inputs, 0.0), then plain copy from input to output
Copy_plain(input, output, num_inputs) ==
    output \o SubSeq(input, Len(input) - num_inputs + 1, Len(input))

\* Variant: the gradient of the second output replaces that of the first
Copy_sum_replaced(upd, input, output, num_inputs) ==
    LET input_tape_start == Len(input) - num_inputs
        output_tape_start == Len(output) - num_inputs
    IN  [i \in DOMAIN input |->
            IF i > input_tape_start THEN output[output_tape_start + (i - input_tape_start)]
            ELSE input[i]]

\* if update { for i in 0..num_inputs { input[input_tape_start + i] += output[output_tape_start + i] } }
Copy_sum(upd, input, output, num_inputs) ==
    LET input_tape_start == Len(input) - num_inputs
        output_tape_start == Len(output) - num_inputs
    IN  IF upd
        THEN [i \in DOMAIN input |->
                IF i > input_tape_start
                THEN input[i] + output[output_tape_start + (i - input_tape_start)]
                ELSE input[i]]
        ELSE input

(***************************************************************************)
(* The block graphs.  mi.graph tells which one the regressor was built as: *)
(*   "ffm": new_ffm_block, then the logistic loss block (copy_to_result);  *)
(*   "nl" : new_const_block, new_neuronlayer_block, then the loss block.   *)
(* One call of predict (forward) or learn (forward_backward) walks down    *)
(* the chain and back:                                                     *)
(*   idle -> fwd_loss -> idle                           (forward, ffm)     *)
(*   idle -> fb_loss -> fb_back -> idle                 (forward_backward) *)
(*   idle -> nl_fwd -> fb_loss -> fb_back -> idle       (the same, nl)     *)
(* BlockNeuronLayer::forward is `assert!(false, "Unimplemented")`: the nl  *)
(* graph is only ever run through forward_backward.                        *)
(***************************************************************************)
NO_LABEL == 255

\* (hash, value) of the features an example may carry
FeatureKinds == {<<1, 2>>, <<5, -1>>}

\* (label, example_importance) as the parser leaves them
LabelImportance == {<<0, 1>>, <<1, 0>>, <<NO_LABEL, 1>>}

\* fb.example_number of the example at hand
ExampleNumbers == {0, 2}

\* Possible contents of a stack cell that was never written
Garbage == {7, -3}

Configs ==
    {[graph |-> "ffm", ffm_k |-> c[1], ffm_num_fields |-> c[2], optimizer |-> c[3],
      ffm_bit_precision |-> 3, ffm_learning_rate |-> 2, ffm_init_acc_gradient |-> 0,
      ffm_init_width |-> 0, ffm_init_zero_band |-> 0, ffm_init_center |-> 0]
     : c \in {<<1, 3, "SGD">>, <<5, 2, "AdagradFlex">>}}

NLConfigs ==
    {[graph |-> "nl", consts |-> c[1], num_inputs |-> Len(c[1]), num_neurons |-> c[2],
      neuron_type |-> c[3], init_type |-> c[4], dropout |-> c[5], max_norm |-> c[6],
      optimizer |-> c[7], learning_rate |-> 2, init_acc_gradient |-> 0]
     : c \in {<<<<2, -4>>, 2, "WeightedSum", "One", 0, 0, "SGD">>,
              <<<<2, -4>>, 1, "WeightedSum", "Random", 0, 2, "SGD">>,
              <<<<2, 4>>, 2, "WeightedSum", "RandomFirstNeuron1", 2, 0, "AdagradFlex">>,
              <<<<2, 4>>, 2, "WeightedSum", "Random", 2, 2, "SGD">>,
              <<<<2>>, 1, "LimitedWeightedSum", "One", 0, 0, "SGD">>}}

\* Feature buffers: features sorted by field, contra_field_index = field * k
FeaturesOf(cfg) ==
    {[hash |-> fk[1], value |-> fk[2], contra_field_index |-> f * cfg.ffm_k]
     : fk \in FeatureKinds, f \in 0..(cfg.ffm_num_fields - 1)}

FfmBuffers(cfg) ==
    UNION {{b \in [1..n -> FeaturesOf(cfg)] :
                \A i \in 1..(n - 1) : b[i].contra_field_index <= b[i + 1].contra_field_index}
           : n \in 0..MaxFeatures}

FeatureBuffers(cfg) ==
    {[label |-> li[1], example_importance |-> li[2], example_number |-> 0,
      ffm_buffer |-> b, ffm_fields_count |-> cfg.ffm_num_fields]
     : li \in LabelImportance, b \in FfmBuffers(cfg)}

NLFeatureBuffers ==
    {[label |-> li[1], example_importance |-> li[2], example_number |-> n]
     : li \in LabelImportance, n \in ExampleNumbers}

\* Calls are explored from weight tables of bounded magnitude only
WeightsInRange == \A i \in DOMAIN weights : weights[i] \in (0 - MaxWeight)..MaxWeight

BlockFFM_self ==
    [weights |-> weights, ffm_k |-> mi.ffm_k, ffm_num_fields |-> mi.ffm_num_fields,
     field_embedding_len |-> mi.ffm_k * mi.ffm_num_fields]

num_outputs == mi.ffm_num_fields * mi.ffm_num_fields

\* The cells the loss block reads: the output region of the block before it
LossRegion ==
    IF mi.graph = "ffm" THEN 0..(num_outputs - 1)
    ELSE mi.num_inputs..(mi.num_inputs + mi.num_neurons - 1)

LossInput ==
    LET first == IF mi.graph = "ffm" THEN 0 ELSE mi.num_inputs
    IN  [i \in 1..Cardinality(LossRegion) |-> Num(tape[first + i - 1])]

InitFFM ==
    /\ mi \in Configs
    /\ weights = FFM_allocate_and_init_weights(mi).weights
    /\ optimizer = FFM_allocate_and_init_weights(mi).optimizer
    /\ fb \in FeatureBuffers(mi)
    /\ tape = [c \in 0..(num_outputs - 1) |-> 0]

InitNL ==
    /\ mi \in NLConfigs
    /\ \E sample \in NL_Samples(mi) :
          /\ weights = NL_allocate_and_init_weights(mi, sample).weights
          /\ optimizer = NL_allocate_and_init_weights(mi, sample).optimizer
    /\ fb \in NLFeatureBuffers
    /\ tape = [c \in 0..(mi.num_inputs + mi.num_neurons - 1) |-> 0]

InitGraph ==
    /\ LossOff /\ CopyOff /\ InitOff /\ ExtraOff
    /\ InitFFM \/ InitNL
    /\ results = <<>>
    /\ pc = "idle"
    /\ update = FALSE
    /\ local_data_ffm_values = <<>>
    /\ num_learns = 0
    /\ w_entry = weights
    /\ opt_entry = optimizer
    /\ stable_pred = <<>>

\* BlockFFM::forward up to block_helpers::forward(further_blocks, ...)
FFM_forward ==
    /\ pc = "idle"
    /\ mi.graph = "ffm"
    /\ WeightsInRange
    /\ \E u \in Garbage :
          tape' = Fwd_myslice(BlockFFM_self, fb.ffm_buffer, fb.ffm_fields_count, u)
    /\ pc' = "fwd_loss"
    /\ update' = FALSE
    /\ results' = <<>>
    /\ w_entry' = weights
    /\ opt_entry' = optimizer
    /\ UNCHANGED <<mi, weights, optimizer, fb, local_data_ffm_values, num_learns, stable_pred>>
    /\ UNCHANGED otherVars

\* BlockSigmoid::forward, and the return through BlockFFM::forward
Loss_forward ==
    /\ pc = "fwd_loss"
    /\ results' = Append(results, Sigmoid_forward(LossInput))
    /\ stable_pred' = IF stable_pred = <<>> THEN <<Sigmoid_forward(LossInput)>>
                      ELSE stable_pred
    /\ pc' = "idle"
    /\ UNCHANGED <<mi, weights, optimizer, fb, tape, update, local_data_ffm_values,
                   num_learns, w_entry, opt_entry>>
    /\ UNCHANGED otherVars

\* BlockFFM::forward_backward up to block_helpers::forward_backward(further_blocks, ...)
FFM_forward_backward(upd) ==
    /\ pc = "idle"
    /\ mi.graph = "ffm"
    /\ WeightsInRange
    /\ upd => num_learns < MaxLearns
    /\ \E u \in Garbage :
          LET r == FB_forward(BlockFFM_self, fb.ffm_buffer, fb.ffm_fields_count, u)
          IN  /\ tape' = r.myslice
              /\ local_data_ffm_values' = r.local_data_ffm_values
    /\ pc' = "fb_loss"
    /\ update' = upd
    /\ results' = <<>>
    /\ w_entry' = weights
    /\ opt_entry' = optimizer
    /\ UNCHANGED <<mi, weights, optimizer, fb, num_learns, stable_pred>>
    /\ UNCHANGED otherVars

\* BlockConsts::forward_backward up to the call of the further blocks: the
\* constants are put on the tape
Consts_forward_backward(upd) ==
    /\ pc = "idle"
    /\ mi.graph = "nl"
    /\ WeightsInRange
    /\ upd => num_learns < MaxLearns
    /\ tape' = [c \in DOMAIN tape |-> IF c < mi.num_inputs THEN mi.consts[c + 1] ELSE 0]
    /\ pc' = "nl_fwd"
    /\ update' = upd
    /\ results' = <<>>
    /\ w_entry' = weights
    /\ opt_entry' = optimizer
    /\ UNCHANGED <<mi, weights, optimizer, fb, local_data_ffm_values, num_learns, stable_pred>>
    /\ UNCHANGED otherVars

\* BlockNeuronLayer::forward_backward up to the call of the further blocks
NL_forward_stage ==
    /\ pc = "nl_fwd"
    /\ tape' = [c \in mi.num_inputs..(mi.num_inputs + mi.num_neurons - 1) |->
                    NL_output(mi, weights, tape, fb, update, c - mi.num_inputs)] @@ tape
    /\ pc' = "fb_loss"
    /\ UNCHANGED <<mi, weights, optimizer, fb, results, update, local_data_ffm_values,
                   num_learns, w_entry, opt_entry, stable_pred>>
    /\ UNCHANGED otherVars

\* BlockSigmoid::forward_backward: the prediction is pushed, the inputs are
\* replaced with their gradient
Loss_forward_backward ==
    /\ pc = "fb_loss"
    /\ LET r == Sigmoid_forward_backward(LossInput, fb.label, fb.example_importance)
       IN  /\ results' = Append(results, r.prediction_probability)
           /\ tape' = [c \in LossRegion |-> r.general_gradient] @@ tape
    /\ pc' = "fb_back"
    /\ UNCHANGED <<mi, weights, optimizer, fb, update, local_data_ffm_values,
                   num_learns, w_entry, opt_entry, stable_pred>>
    /\ UNCHANGED otherVars

\* Bookkeeping shared by the two backward steps
Returned(w, o) ==
    /\ weights' = w
    /\ optimizer' = o
    /\ num_learns' = IF update THEN num_learns + 1 ELSE num_learns
    /\ stable_pred' = IF update THEN <<>>
                      ELSE IF stable_pred = <<>> THEN <<results[1]>> ELSE stable_pred
    /\ local_data_ffm_values' = <<>>
    /\ pc' = "idle"

\* BlockFFM::forward_backward after the further blocks returned
FFM_backward ==
    /\ pc = "fb_back"
    /\ mi.graph = "ffm"
    /\ LET st == FFM_update(mi, fb.ffm_buffer, fb.ffm_fields_count, tape,
                            local_data_ffm_values, update,
                            [weights |-> weights, optimizer |-> optimizer])
       IN  Returned(st.weights, st.optimizer)
    /\ UNCHANGED <<mi, fb, tape, results, update, w_entry, opt_entry>>
    /\ UNCHANGED otherVars

\* BlockNeuronLayer::forward_backward after the further blocks returned, and
\* the return through BlockConsts::forward_backward
NL_backward_stage ==
    /\ pc = "fb_back"
    /\ mi.graph = "nl"
    /\ LET st == NL_backward(mi, fb, tape, update, weights, optimizer)
       IN  /\ Returned(st.weights, st.optimizer)
           /\ tape' = st.tape
    /\ UNCHANGED <<mi, fb, results, update, w_entry, opt_entry>>
    /\ UNCHANGED otherVars

NextGraph ==
    \/ FFM_forward
    \/ Loss_forward
    \/ \E upd \in BOOLEAN : FFM_forward_backward(upd)
    \/ \E upd \in BOOLEAN : Consts_forward_backward(upd)
    \/ NL_forward_stage
    \/ Loss_forward_backward
    \/ FFM_backward
    \/ NL_backward_stage

SpecGraph == InitGraph /\ [][NextGraph]_vars

(***************************************************************************)
(* The logistic loss block on its own: one block whose input tape holds   *)
(* num_inputs cells, any of which may be a NaN.                            *)
(***************************************************************************)
LossCells == {NaN, Num(-51), Num(-50), Num(-1), Num(0), Num(2), Num(50), Num(51)}

SigmoidInputs == UNION {[1..n -> LossCells] : n \in 1..MaxInputs}

\* (label, example_importance)
LossExamples == LabelImportance \cup {<<1, 1>>, <<0, 3>>}

InitLoss ==
    /\ GraphOff /\ CopyOff /\ InitOff /\ ExtraOff
    /\ sg_in \in SigmoidInputs
    /\ sg_fb \in {[label |-> li[1], example_importance |-> li[2]] : li \in LossExamples}
    /\ sg_out = <<>>
    /\ sg_results = <<>>
    /\ sg_pc = "idle"
    /\ sg_entry = sg_in

\* BlockSigmoid::forward
BlockSigmoid_forward ==
    /\ sg_pc = "idle"
    /\ sg_out' = Append(sg_out, Sigmoid_forward(sg_in))
    /\ sg_results' = Append(sg_results, Sigmoid_forward(sg_in))
    /\ sg_pc' = "forward"
    /\ UNCHANGED <<sg_in, sg_fb, sg_entry>>
    /\ UNCHANGED <<graphVars, copyVars, initVars, extraVars>>

\* BlockSigmoid::forward_backward
BlockSigmoid_forward_backward ==
    /\ sg_pc = "idle"
    /\ LET r == Sigmoid_forward_backward(sg_in, sg_fb.label, sg_fb.example_importance)
       IN  /\ sg_out' = Append(sg_out, r.prediction_probability)
           /\ sg_results' = Append(sg_results, r.prediction_probability)
           /\ sg_in' = [i \in DOMAIN sg_in |-> Num(r.general_gradient)]
    /\ sg_pc' = "forward_backward"
    /\ UNCHANGED <<sg_fb, sg_entry>>
    /\ UNCHANGED <<graphVars, copyVars, initVars, extraVars>>

NextLoss == BlockSigmoid_forward \/ BlockSigmoid_forward_backward

SpecLoss == InitLoss /\ [][NextLoss]_vars

(***************************************************************************)
(* The copy block: new_const_block feeds BlockCopy, whose input tape is   *)
(* consumed by a result block (replace_input_with r1) and whose output     *)
(* tape by a second result block (replace_input_with r2).                  *)
(***************************************************************************)
CopyConfigs ==
    {[consts |-> c[1], r1 |-> c[2], r2 |-> c[3]]
     : c \in {<<3>>, <<3, -1>>} \X {0, 1, -2} \X {0, 5}}

Fill(tp, v) == [i \in DOMAIN tp |-> v]

InitCopy ==
    /\ GraphOff /\ LossOff /\ InitOff /\ ExtraOff
    /\ cp_cfg \in CopyConfigs
    /\ cp_in = <<>>
    /\ cp_out = <<>>
    /\ cp_results = <<>>
    /\ cp_pc = "idle"
    /\ cp_update = FALSE
    /\ cp_g1 = <<>>
    /\ cp_g2 = <<>>

\* BlockConsts::forward_backward up to the call of the further blocks
Copy_Consts(upd) ==
    /\ cp_pc = "idle"
    /\ cp_in' = cp_in \o cp_cfg.consts
    /\ cp_update' = upd
    /\ cp_results' = <<>>
    /\ cp_pc' = "copy"
    /\ UNCHANGED <<cp_cfg, cp_out, cp_g1, cp_g2>>
    /\ UNCHANGED <<graphVars, lossVars, initVars, extraVars>>

\* BlockCopy::forward_backward up to the call of the further blocks
Copy_forward_stage ==
    /\ cp_pc = "copy"
    /\ cp_out' = Copy_plain(cp_in, cp_out, Len(cp_cfg.consts))
    /\ cp_pc' = "result1"
    /\ UNCHANGED <<cp_cfg, cp_in, cp_results, cp_update, cp_g1, cp_g2>>
    /\ UNCHANGED <<graphVars, lossVars, initVars, extraVars>>

\* BlockResult::forward_backward of the first consumer, up to the further blocks
Result1_forward_stage ==
    /\ cp_pc = "result1"
    /\ cp_results' = cp_results \o cp_in
    /\ cp_pc' = "result2"
    /\ UNCHANGED <<cp_cfg, cp_in, cp_out, cp_update, cp_g1, cp_g2>>
    /\ UNCHANGED <<graphVars, lossVars, initVars, extraVars>>

\* BlockResult::forward_backward of the second consumer, the end of the chain
Result2_forward_backward ==
    /\ cp_pc = "result2"
    /\ cp_results' = cp_results \o cp_out
    /\ cp_out' = Fill(cp_out, cp_cfg.r2)
    /\ cp_pc' = "result1_back"
    /\ UNCHANGED <<cp_cfg, cp_in, cp_update, cp_g1, cp_g2>>
    /\ UNCHANGED <<graphVars, lossVars, initVars, extraVars>>

\* BlockResult::forward_backward of the first consumer, after the further blocks
Result1_backward_stage ==
    /\ cp_pc = "result1_back"
    /\ cp_in' = Fill(cp_in, cp_cfg.r1)
    /\ cp_pc' = "copy_back"
    /\ UNCHANGED <<cp_cfg, cp_out, cp_results, cp_update, cp_g1, cp_g2>>
    /\ UNCHANGED <<graphVars, lossVars, initVars, extraVars>>

\* BlockCopy::forward_backward after the further blocks returned
Copy_backward_stage ==
    /\ cp_pc = "copy_back"
    /\ cp_g1' = cp_in
    /\ cp_g2' = cp_out
    /\ cp_in' = Copy_sum(cp_update, cp_in, cp_out, Len(cp_cfg.consts))
    /\ cp_out' = SubSeq(cp_out, 1, Len(cp_out) - Len(cp_cfg.consts))
    /\ cp_pc' = "consts_back"
    /\ UNCHANGED <<cp_cfg, cp_results, cp_update>>
    /\ UNCHANGED <<graphVars, lossVars, initVars, extraVars>>

\* BlockConsts::forward_backward after the further blocks returned
Consts_backward_stage ==
    /\ cp_pc = "consts_back"
    /\ cp_in' = SubSeq(cp_in, 1, Len(cp_in) - Len(cp_cfg.consts))
    /\ cp_pc' = "idle"
    /\ UNCHANGED <<cp_cfg, cp_out, cp_results, cp_update, cp_g1, cp_g2>>
    /\ UNCHANGED <<graphVars, lossVars, initVars, extraVars>>

NextCopy ==
    \/ \E upd \in BOOLEAN : Copy_Consts(upd)
    \/ Copy_forward_stage
    \/ Result1_forward_stage
    \/ Result2_forward_backward
    \/ Result1_backward_stage
    \/ Copy_backward_stage
    \/ Consts_backward_stage

SpecCopy == InitCopy /\ [][NextCopy]_vars

(***************************************************************************)
(* Two runs of allocate_and_init_weights with one model configuration.     *)
(***************************************************************************)
FFMInitConfigs ==
    Configs \cup
    {[graph |-> "ffm", ffm_k |-> 2, ffm_num_fields |-> 2, optimizer |-> "AdagradFlex",
      ffm_bit_precision |-> 2, ffm_learning_rate |-> 2, ffm_init_acc_gradient |-> 1,
      ffm_init_width |-> 2, ffm_init_zero_band |-> c[1], ffm_init_center |-> c[2]]
     : c \in {0, 1} \X {0, 1}}

NLInitConfigs ==
    {[graph |-> "nl", consts |-> <<2, 4>>, num_inputs |-> 2, num_neurons |-> c[1],
      neuron_type |-> "WeightedSum", init_type |-> c[2], dropout |-> 0, max_norm |-> 0,
      optimizer |-> "SGD", learning_rate |-> 2, init_acc_gradient |-> 0]
     : c \in {1, 2} \X {"Random", "RandomFirstNeuron1", "RandomFirstNeuron10", "One"}}

\* The weight table one run of allocate_and_init_weights leaves
InitRun(cfg, table) ==
    IF cfg.graph = "ffm"
    THEN table = FFM_allocate_and_init_weights(cfg).weights
    ELSE \E sample \in NL_Samples(cfg) :
            table = NL_allocate_and_init_weights(cfg, sample).weights

InitInit ==
    /\ GraphOff /\ LossOff /\ CopyOff /\ ExtraOff
    /\ in_cfg \in FFMInitConfigs \cup NLInitConfigs
    /\ in_run1 = <<>>
    /\ in_run2 = <<>>
    /\ in_pc = "none"

FirstRun ==
    /\ in_pc = "none"
    /\ InitRun(in_cfg, in_run1')
    /\ in_pc' = "one"
    /\ UNCHANGED <<in_cfg, in_run2>>
    /\ UNCHANGED <<graphVars, lossVars, copyVars, extraVars>>

SecondRun ==
    /\ in_pc = "one"
    /\ InitRun(in_cfg, in_run2')
    /\ in_pc' = "both"
    /\ UNCHANGED <<in_cfg, in_run1>>
    /\ UNCHANGED <<graphVars, lossVars, copyVars, extraVars>>

NextInit == FirstRun \/ SecondRun

SpecInit == InitInit /\ [][NextInit]_vars

(***************************************************************************)
(* Properties of the FFM kernels.                                          *)
(***************************************************************************)
FieldOf(feature) == feature.contra_field_index \div mi.ffm_k

FeaturesIn(i) == {a \in DOMAIN fb.ffm_buffer : FieldOf(fb.ffm_buffer[a]) = i}

Fields == 0..(mi.ffm_num_fields - 1)

\* <w_{f,j}, w_{g,i}>: the embedding of f towards field j against that of g towards i
Inner(w, f, j, g, i) ==
    SumFn([t \in 0..(mi.ffm_k - 1) |->
            w[f.hash + j * mi.ffm_k + t] * w[g.hash + i * mi.ffm_k + t]])

\* Sum over f in field i, g in field j, f # g, of value_f * value_g * <w_{f,j}, w_{g,i}>
PairSum(w, i, j) ==
    SumFn([p \in {q \in FeaturesIn(i) \X FeaturesIn(j) : q[1] # q[2]} |->
            fb.ffm_buffer[p[1]].value * fb.ffm_buffer[p[2]].value
            * Inner(w, fb.ffm_buffer[p[1]], j, fb.ffm_buffer[p[2]], i)])

\* The FFM block has just written its output region (either kernel)
AfterKernel == mi.graph = "ffm" /\ pc \in {"fwd_loss", "fb_loss"}

C2_EmptyAndSingleFields ==
    AfterKernel =>
        /\ \A i \in Fields : FeaturesIn(i) = {} =>
              \A j \in Fields : /\ tape[i * fb.ffm_fields_count + j] = 0
                                /\ tape[j * fb.ffm_fields_count + i] = 0
        /\ \A i \in Fields : Cardinality(FeaturesIn(i)) = 1 =>
              tape[i * fb.ffm_fields_count + i] = 0
        /\ Len(fb.ffm_buffer) = 1 => \A c \in 0..(num_outputs - 1) : tape[c] = 0

\* The training kernel ran on an example whose only feature is in the middle
\* one of three fields
C2_Witness ==
    /\ mi.graph = "ffm"
    /\ pc = "fb_loss"
    /\ mi.ffm_num_fields = 3
    /\ Len(fb.ffm_buffer) = 1
    /\ FieldOf(fb.ffm_buffer[1]) = 1
    /\ fb.ffm_buffer[1].value # 0

\* What BlockFFM::forward followed by the loss block returns for weights w
PredictionOf(w, u) ==
    LET out == Fwd_myslice([BlockFFM_self EXCEPT !.weights = w], fb.ffm_buffer,
                           fb.ffm_fields_count, u)
    IN  Sigmoid_forward([i \in 1..num_outputs |-> Num(out[i - 1])])

AfterLearn == pc = "idle" /\ update /\ results # <<>>

C5_NoSignalNoChange ==
    (AfterLearn /\ (fb.example_importance = 0 \/ fb.label = NO_LABEL)) =>
        weights = w_entry

\* The SGD step of C10 for every weight and bias of the layer
SGDStep ==
    /\ \A j \in 0..(mi.num_neurons - 1) : \A i \in 0..(mi.num_inputs - 1) :
          weights[i + j * mi.num_inputs] =
              w_entry[i + j * mi.num_inputs]
              - mi.learning_rate * tape[mi.num_inputs + j] * mi.consts[i + 1]
    /\ \A j \in 0..(mi.num_neurons - 1) :
          weights[NL_bias_offset(mi) + j] =
              w_entry[NL_bias_offset(mi) + j] - mi.learning_rate * tape[mi.num_inputs + j]
    /\ optimizer = opt_entry

C7_InputsHoldGradient ==
    sg_pc = "forward_backward" =>
        LET wsum == FSum(sg_entry)
            general_gradient ==
                IF wsum.nan \/ wsum.v < -50 \/ wsum.v > 50 THEN 0
                ELSE (0 - (sg_fb.label * One - sg_results[1])) * sg_fb.example_importance
        IN  /\ DOMAIN sg_in = DOMAIN sg_entry
            /\ \A i \in DOMAIN sg_in : sg_in[i] = Num(general_gradient)

\* forward_backward ran on two cells with a sum inside the clamps and left a
\* non-zero gradient
C7_Witness ==
    /\ sg_pc = "forward_backward"
    /\ Len(sg_entry) = 2
    /\ ~FSum(sg_entry).nan /\ FSum(sg_entry).v \in -50..50
    /\ sg_in[1].v # 0

(***************************************************************************)
(* Properties of the copy block.                                           *)
(***************************************************************************)
\* C8: after a training pass, every cell of the input region of the copy
\* block holds the sum of the gradients the consumers of its two outputs
\* left: input_grad[i] = out1_grad[i] + out2_grad[i].
C8_InputGradIsSum ==
    (cp_pc = "consts_back" /\ cp_update) =>
        /\ Len(cp_in) = Len(cp_cfg.consts)
        /\ \A i \in 1..Len(cp_cfg.consts) : cp_in[i] = cp_g1[i] + cp_g2[i]

\* A training pass over two cells whose consumers both left a non-zero gradient
C8_Witness ==
    /\ cp_pc = "consts_back" /\ cp_update
    /\ Len(cp_in) = 2
    /\ cp_g1[1] # 0 /\ cp_g2[1] # 0

(***************************************************************************)
(* Properties of weight initialisation.                                    *)
(***************************************************************************)
\* C9 as stated: two runs of allocate_and_init_weights with the same model
\* configuration produce identical weight tables, for the FFM block in both
\* modes and for the neuron layer with every InitType.
C9_InitDeterministic ==
    in_pc = "both" => in_run1 = in_run2

(***************************************************************************)
(* The vowpal parser (parser.rs).  Bytes are their ASCII codes; a u32 cell *)
(* of the output buffer is [msb, low]: its top bit and its lower 31 bits.  *)
(* An f32 is [nan, neg, mag], mag counting halves (1.0 is mag = 2).        *)
(***************************************************************************)
HEADER_LEN == 3
LABEL_OFFSET == 1
EXAMPLE_IMPORTANCE_OFFSET == 2
FLOAT32_ONE == 1065353216

U32(x) == [msb |-> 0, low |-> x]

\* IS_NOT_SINGLE_MASK | x
IS_NOT_SINGLE(x) == [msb |-> 1, low |-> x]

NO_FEATURES == IS_NOT_SINGLE(0)

F32(neg, mag) == [nan |-> FALSE, neg |-> neg, mag |-> mag]

F32_NAN == [nan |-> TRUE, neg |-> FALSE, mag |-> 0]

F32_ONE == F32(FALSE, 2)

\* a * b, for factors whose product is a whole number of halves
F32_mul(a, b) ==
    IF a.nan \/ b.nan THEN F32_NAN
    ELSE F32(a.neg # b.neg, (a.mag * b.mag) \div 2)

\* Variant: no importance counts as negative
F32_negative_never(a) == FALSE

\* a < 0.0
F32_negative(a) == ~a.nan /\ a.neg /\ a.mag > 0

\* a == 1.0
F32_is_one(a) == ~a.nan /\ ~a.neg /\ a.mag = 2

RECURSIVE Log2(_)
Log2(m) == IF m <= 1 THEN 0 ELSE 1 + Log2(m \div 2)

\* f32::to_bits: sign, biased exponent, 23 bits of mantissa
to_bits(f) ==
    IF f.nan THEN U32(2143289344)
    ELSE [msb |-> IF f.neg THEN 1 ELSE 0,
          low |-> IF f.mag = 0 THEN 0
                  ELSE LET p == Log2(f.mag)
                       IN  (p + 126) * (2 ^ 23) + (f.mag - 2 ^ p) * (2 ^ (23 - p))]

\* The bytes p[a..b) of a buffer
Bytes(buf, a, b) == SubSeq(buf, a + 1, b)

\* *p.add(i)
ByteAt(buf, i) == buf[i + 1]

Digits == 48..57

RECURSIVE DigitsValue(_)
DigitsValue(d) ==
    IF d = <<>> THEN 0 ELSE DigitsValue(SubSeq(d, 1, Len(d) - 1)) * 10 + (d[Len(d)] - 48)

\* The halves a fraction part stands for: .0 is 0, .5 is 1 (other fractions
\* do not occur in the lines of this model)
FractionHalves(d) ==
    CASE \A i \in DOMAIN d : d[i] = 48 -> 0
      [] d # <<>> /\ d[1] = 53 /\ \A i \in 2..Len(d) : d[i] = 48 -> 1

\* str::parse::<f32>: [sign] digits [. digits], with a digit somewhere (the
\* exponent, inf and nan forms need letters no numeric token here has)
ParseF32(tok) ==
    LET signed == tok # <<>> /\ tok[1] \in {43, 45}
        body == IF signed THEN Tail(tok) ELSE tok
        dots == {i \in DOMAIN body : body[i] = 46}
        dot == IF dots = {} THEN Len(body) + 1 ELSE CHOOSE i \in dots : \A j \in dots : i <= j
        int == SubSeq(body, 1, dot - 1)
        frac == SubSeq(body, dot + 1, Len(body))
        wellformed == /\ Cardinality(dots) <= 1
                      /\ \A i \in DOMAIN int : int[i] \in Digits
                      /\ \A i \in DOMAIN frac : frac[i] \in Digits
                      /\ Len(int) + Len(frac) > 0
    IN  IF wellformed
        THEN [ok |-> TRUE,
              f |-> F32(signed /\ tok[1] = 45, 2 * DigitsValue(int) + FractionHalves(frac))]
        ELSE [ok |-> FALSE, f |-> F32_NAN]

\* VowpalParser::parse_float_or_error on tmp_read_buf[i_start..i_end]
parse_float_or_error(buf, i_start, i_end) ==
    IF i_end - i_start = 4 /\ Bytes(buf, i_start, i_end) = <<78, 79, 78, 69>>
    THEN [ok |-> TRUE, f |-> F32_NAN]
    ELSE ParseF32(Bytes(buf, i_start, i_end))

\* VowpalParser::parse_cmd: the tokens of tmp_read_buf[i_start..rowlen), split at spaces
RECURSIVE parse_cmd(_, _, _)
parse_cmd(buf, i_start, rowlen) ==
    IF i_start >= rowlen THEN <<>>
    ELSE LET stops == {i \in i_start..(rowlen - 1) : ByteAt(buf, i) = 32}
             tok_end == IF stops = {} THEN rowlen
                        ELSE CHOOSE i \in stops : \A j \in stops : i <= j
             others == {i \in tok_end..(rowlen - 1) : ByteAt(buf, i) # 32}
             next == IF others = {} THEN rowlen
                     ELSE CHOOSE i \in others : \A j \in others : i <= j
         IN  <<Bytes(buf, i_start, tok_end)>> \o parse_cmd(buf, next, rowlen)

\* while *p.add(i) != c1 && *p.add(i) != c2 && i < rowlen { i += 1 }
RECURSIVE ScanUntil(_, _, _, _)
ScanUntil(buf, i, rowlen, stop) ==
    IF ~(ByteAt(buf, i) \in stop) /\ i < rowlen THEN ScanUntil(buf, i + 1, rowlen, stop) ELSE i

\* while *p.add(i) == 0x20 && i < rowlen { i += 1 }
RECURSIVE SkipSpaces(_, _, _)
SkipSpaces(buf, i, rowlen) ==
    IF ByteAt(buf, i) = 32 /\ i < rowlen THEN SkipSpaces(buf, i + 1, rowlen) ELSE i

\* murmur3::hash32_with_seed (an external crate): a 32-bit mix of the bytes and the seed
RECURSIVE MurmurMix(_, _)
MurmurMix(bytes, h) ==
    IF bytes = <<>> THEN h ELSE MurmurMix(Tail(bytes), (h * 31 + Head(bytes) + 1) % 65521)

hash32_with_seed(bytes, seed) ==
    LET h == MurmurMix(bytes, (seed.low + 7 * seed.msb) % 65521)
    IN  [msb |-> h % 2, low |-> h]

hash32(bytes) == hash32_with_seed(bytes, U32(0))

\* Variant: the top bit of the hash is kept
MASK31_unmasked(x) == x

\* x & MASK31
MASK31(x) == [msb |-> 0, low |-> x.low]

\* vwmap::VwNamespaceMap as VowpalParser::new reads it: three declared
\* namespaces, A and B categorical, C holding f32 values
vw_map ==
    [num_namespaces |-> 3,
     namespace_skip_prefix |-> 0,
     map_vwname_to_namespace_descriptor |->
        (<<65>> :> [namespace_index |-> 0, namespace_format |-> "Categorical"])
        @@ (<<66>> :> [namespace_index |-> 1, namespace_format |-> "Categorical"])
        @@ (<<67>> :> [namespace_index |-> 2, namespace_format |-> "F32"])]

\* RadixTree::get on the tree VowpalParser::new builds
RadixTree_get(vwname) ==
    IF vwname \in DOMAIN vw_map.map_vwname_to_namespace_descriptor
    THEN [found |-> TRUE,
          descriptor |-> vw_map.map_vwname_to_namespace_descriptor[vwname],
          hash_seed |-> hash32(vwname)]
    ELSE [found |-> FALSE]

\* output_buffer[k], and output_buffer with cell k set
Cell(out, k) == out[k + 1]

SetCell(out, k, v) == [out EXCEPT ![k + 1] = v]

ParseOk(out) == [kind |-> "Ok", out |-> out]

ParseErr(msg, out) == [kind |-> "Err", msg |-> msg, out |-> out]

\* A feature token tmp_read_buf[i_start..i_end), its name ending at i_end_first_part
\* The feature written in place is moved behind the buffer when a second one follows
Promoted(st) ==
    LET feature_output == Cell(st.out, st.current_namespace_index_offset)
    IN  IF st.current_namespace_num_of_features = 1 /\ feature_output.msb = 0
        THEN st.out \o <<feature_output, U32(FLOAT32_ONE)>>
        ELSE st.out

\* The descriptor cell is pointed at the pairs pushed so far
FeaturePushed(st, pushed) ==
    [err |-> "",
     st |-> [st EXCEPT
               !.out = SetCell(pushed, st.current_namespace_index_offset,
                          IS_NOT_SINGLE(st.bufpos_namespace_start * (2 ^ 16) + Len(pushed))),
               !.current_namespace_num_of_features = @ + 1]]

\* A feature of an f32 namespace: the hash and the value its name parses to
FeatureF32(st, h, feature_weight, float_value) ==
    IF ~float_value.ok
    THEN [err |-> "Failed parsing feature value to float (for float namespace)",
          st |-> [st EXCEPT !.out = Promoted(st) \o <<h>>]]
    ELSE IF ~F32_is_one(F32_mul(st.current_namespace_weight, feature_weight))
    THEN [err |-> "Namespaces that are f32 can not have weight attached",
          st |-> [st EXCEPT !.out = Promoted(st) \o <<h, to_bits(float_value.f)>>]]
    ELSE FeaturePushed(st, Promoted(st) \o <<h, to_bits(float_value.f)>>)

\* The feature with hash h and the weight its token carries
FeatureWeighted(buf, i_start, i_end_first_part, st, h, weight) ==
    LET float_start == i_start + vw_map.namespace_skip_prefix
    IN  IF ~weight.ok THEN [err |-> "Failed parsing feature weight", st |-> st]
        ELSE IF /\ st.current_namespace_num_of_features = 0
                /\ st.current_namespace_format = "Categorical"
                /\ F32_is_one(st.current_namespace_weight)
                /\ F32_is_one(weight.f)
        THEN [err |-> "",
              st |-> [st EXCEPT !.out = SetCell(@, st.current_namespace_index_offset, h),
                                !.current_namespace_num_of_features = @ + 1]]
        ELSE IF st.current_namespace_format = "F32"
        THEN FeatureF32(st, h, weight.f,
                        IF i_end_first_part # float_start
                        THEN parse_float_or_error(buf, float_start, i_end_first_part)
                        ELSE [ok |-> TRUE, f |-> F32_NAN])
        ELSE FeaturePushed(st, Promoted(st) \o
                 <<h, to_bits(F32_mul(st.current_namespace_weight, weight.f))>>)

ParseFeature(buf, i_start, i_end_first_part, i_end, st) ==
    FeatureWeighted(buf, i_start, i_end_first_part, st,
        MASK31(hash32_with_seed(Bytes(buf, i_start, i_end_first_part),
                                st.current_namespace_hash_seed)),
        IF i_end_first_part # i_end
        THEN parse_float_or_error(buf, i_end_first_part + 1, i_end)
        ELSE [ok |-> TRUE, f |-> F32_ONE])

\* The namespace with the weight its token carries and what the lookup of
\* its name found
NamespaceWeighted(i_start, i_end_first_part, st, weight, found) ==
    IF ~weight.ok THEN [err |-> "Failed parsing namespace weight", st |-> st]
    ELSE IF i_start > i_end_first_part
    THEN [err |-> "undefined: get_unchecked(i_start..i_end_first_part) with i_start beyond",
          st |-> st]
    ELSE IF ~found.found
    THEN [err |-> "Feature name was not predeclared in vw_namespace_map.csv",
          st |-> [st EXCEPT !.current_namespace_weight = weight.f]]
    ELSE [err |-> "",
          st |-> [st EXCEPT
                    !.current_namespace_weight = weight.f,
                    !.current_namespace_hash_seed = found.hash_seed,
                    !.current_namespace_index_offset =
                        found.descriptor.namespace_index + HEADER_LEN,
                    !.current_namespace_format = found.descriptor.namespace_format,
                    !.current_namespace_num_of_features = 0,
                    !.bufpos_namespace_start = Len(st.out)]]

\* A namespace token |<name>[:<weight>]
ParseNamespace(buf, i_bar, i_end_first_part, i_end, st) ==
    NamespaceWeighted(i_bar + 1, i_end_first_part, st,
        IF i_end_first_part # i_end
        THEN parse_float_or_error(buf, i_end_first_part + 1, i_end)
        ELSE [ok |-> TRUE, f |-> F32_ONE],
        RadixTree_get(Bytes(buf, i_bar + 1, i_end_first_part)))

\* while i_end < rowlen { ... }: one token per round
RECURSIVE TokenLoop(_, _, _, _)

\* The end of a round: the error of the token, or the next round
TokenParsed(buf, rowlen, i_end, r) ==
    IF r.err # "" THEN r ELSE TokenLoop(buf, rowlen, i_end + 1, r.st)

TokenLoop(buf, rowlen, i_end, st) ==
    IF i_end >= rowlen THEN [err |-> "", st |-> st]
    ELSE LET i_start == SkipSpaces(buf, i_end, rowlen)
             i_end_first_part == ScanUntil(buf, i_start, rowlen, {32, 58})
             i_end_token == ScanUntil(buf, i_end_first_part, rowlen, {32})
         IN  TokenParsed(buf, rowlen, i_end_token,
                 IF ByteAt(buf, i_start) = 124
                 THEN ParseNamespace(buf, i_start, i_end_first_part, i_end_token, st)
                 ELSE ParseFeature(buf, i_start, i_end_first_part, i_end_token, st))

\* The end of the parse: the error, or the buffer with its length in cell 0
ExampleParsed(r) ==
    IF r.err # "" THEN ParseErr(r.err, r.st.out)
    ELSE ParseOk(SetCell(r.st.out, 0, U32(Len(r.st.out))))

\* The namespaces and features, from the first bar at or after i_end
ParseTokens(buf, rowlen, i_end, out) ==
    ExampleParsed(TokenLoop(buf, rowlen, ScanUntil(buf, i_end, rowlen, {124}),
        [out |-> out,
         current_namespace_hash_seed |-> U32(0),
         current_namespace_index_offset |-> HEADER_LEN,
         current_namespace_format |-> "Categorical",
         current_namespace_weight |-> F32_ONE,
         current_namespace_num_of_features |-> 0,
         bufpos_namespace_start |-> 0]))

\* The example importance that was read from tmp_read_buf[.. i_end)
ParseImportance(buf, rowlen, i_end, out, importance) ==
    IF ~importance.ok THEN ParseErr("Failed parsing example importance", out)
    ELSE IF F32_negative(importance.f)
    THEN ParseErr("Example importance cannot be negative", out)
    ELSE ParseTokens(buf, rowlen, i_end,
                     SetCell(out, EXAMPLE_IMPORTANCE_OFFSET, to_bits(importance.f)))

\* The label was read: example importance, then the namespaces and features
ParseExample(buf, tmp_read_buf_size, out) ==
    LET rowlen == tmp_read_buf_size - 1
        labelled == Cell(out, LABEL_OFFSET) # U32(NO_LABEL)
        i_token == SkipSpaces(buf, ScanUntil(buf, 0, rowlen, {32}), rowlen)
        i_token_end == ScanUntil(buf, i_token, rowlen, {32})
    IN  IF labelled /\ ByteAt(buf, i_token) # 124
        THEN ParseImportance(buf, rowlen, i_token_end, out,
                             parse_float_or_error(buf, i_token, i_token_end))
        ELSE ParseTokens(buf, rowlen, IF labelled THEN i_token ELSE 0,
                         SetCell(out, EXAMPLE_IMPORTANCE_OFFSET, U32(FLOAT32_ONE)))

\* Vec::truncate and slice::fill
truncate(v, len) == IF Len(v) > len THEN SubSeq(v, 1, len) ELSE v

RECURSIVE fill(_, _)
fill(v, value) == IF v = <<>> THEN <<>> ELSE <<value>> \o fill(Tail(v), value)

T_flush == <<102, 108, 117, 115, 104>>

T_hogwild_load == <<104, 111, 103, 119, 105, 108, 100, 95, 108, 111, 97, 100>>

\* A line that starts with neither a label nor flush, split into tokens
ParseCommand(buf, tmp_read_buf_size, out, vecs) ==
    IF Len(vecs) = 2
    THEN IF vecs[1] = T_hogwild_load
         THEN [kind |-> "HogwildLoadCommand", filename |-> vecs[2], out |-> out]
         ELSE ParseExample(buf, tmp_read_buf_size, out)
    ELSE ParseErr("Cannot parse an example", out)

\* match *p.add(0): the label, or a command
ParseLabel(buf, tmp_read_buf_size, out) ==
    LET first == ByteAt(buf, 0)
    IN  IF first \in {49, 45, 124}
        THEN ParseExample(buf, tmp_read_buf_size,
                 SetCell(out, LABEL_OFFSET,
                         IF first = 49 THEN U32(1)
                         ELSE IF first = 45 THEN U32(0) ELSE U32(NO_LABEL)))
        ELSE IF tmp_read_buf_size >= 5 /\ Bytes(buf, 0, 5) = T_flush
        THEN [kind |-> "FlushCommand", out |-> out]
        ELSE IF tmp_read_buf_size >= Len(T_hogwild_load) + 1
        THEN ParseCommand(buf, tmp_read_buf_size, out, parse_cmd(buf, 0, tmp_read_buf_size))
        ELSE ParseErr("Cannot parse an example", out)

\* VowpalParser::next_vowpal_to_size
next_vowpal_to_size(buf, tmp_read_buf_size, output) ==
    ParseLabel(buf, tmp_read_buf_size,
               fill(truncate(output, vw_map.num_namespaces + HEADER_LEN), NO_FEATURES))

\* What a call hands back: the kind of the result and what it carries
Returned_buffer(r) ==
    [kind |-> r.kind,
     buffer |-> IF r.kind = "Ok" THEN r.out ELSE <<>>,
     size |-> 0,
     filename |-> IF r.kind = "HogwildLoadCommand" THEN r.filename ELSE <<>>,
     msg |-> IF r.kind = "Err" THEN r.msg ELSE ""]

\* Ok(&[]): nothing was left to read
Returned_empty == [kind |-> "Ok", buffer |-> <<>>, size |-> 0, filename |-> <<>>, msg |-> ""]

(***************************************************************************)
(* The inputs: lines built from tokens.                                    *)
(***************************************************************************)
MaxTokens == 2

RECURSIVE Join(_)
Join(toks) ==
    IF toks = <<>> THEN <<>>
    ELSE IF Len(toks) = 1 THEN toks[1]
    ELSE toks[1] \o <<32>> \o Join(Tail(toks))

NL == <<10>>

\* |A  |B  |A:2  |C  |D (not declared)
NamespaceTokens == {<<124, 65>>, <<124, 66>>, <<124, 65, 58, 50>>, <<124, 67>>, <<124, 68>>}

\* a  b:0.5  3  a:x
FeatureTokens == {<<97>>, <<98, 58, 48, 46, 53>>, <<51>>, <<97, 58, 120>>}

\* a  b:0.5
FewFeatureTokens == {<<97>>, <<98, 58, 48, 46, 53>>}

TokenSeqs(S) == UNION {[1..n -> S] : n \in 0..MaxTokens}

\* A namespace token and the feature tokens that follow it
Groups(S) == {<<ns>> \o fs : ns \in NamespaceTokens, fs \in TokenSeqs(S)}

\* Lines of one namespace: no, one or two trailing spaces, with and without the newline
GroupLines ==
    {Join(g) \o trail \o end : g \in Groups(FeatureTokens),
                               trail \in {<<>>, <<32>>, <<32, 32>>}, end \in {NL, <<>>}}

\* Lines of two namespaces
PairLines == {Join(g1 \o g2) \o NL : g1 \in Groups(FewFeatureTokens), g2 \in Groups(FewFeatureTokens)}

\* 1  -1  (none)  12  0  -  -x
LabelTokens == {<<49>>, <<45, 49>>, <<>>, <<49, 50>>, <<48>>, <<45>>, <<45, 120>>}

\* (none)  2  0.5  -2  -0.5  -0  x  NONE
ImportanceTokens ==
    {<<>>, <<50>>, <<48, 46, 53>>, <<45, 50>>, <<45, 48, 46, 53>>, <<45, 48>>, <<120>>,
     <<78, 79, 78, 69>>}

\* |A a    a |A b    |D a    (nothing)
HeaderBodies ==
    {<<<<124, 65>>, <<97>>>>, <<<<97>>, <<124, 65>>, <<98>>>>, <<<<124, 68>>, <<97>>>>, <<>>}

NonEmpty(toks) == SelectSeq(toks, LAMBDA t : t # <<>>)

HeaderLines ==
    {Join(NonEmpty(<<l, i>>) \o b) \o NL :
        l \in LabelTokens, i \in ImportanceTokens, b \in HeaderBodies}

T_path == <<47, 112>>

\* flush, hogwild_load with and without a path, and lines that start with
\* neither a label nor a command
ControlLines ==
    {l \o end : end \in {NL, <<>>},
                l \in {T_flush,
                       T_flush \o <<120>>,
                       T_hogwild_load,
                       T_hogwild_load \o <<32>>,
                       T_hogwild_load \o <<32>> \o T_path,
                       T_hogwild_load \o <<32, 32, 32>> \o T_path,
                       T_hogwild_load \o <<32>> \o T_path \o <<32, 32>>,
                       T_hogwild_load \o <<32>> \o T_path \o <<32>> \o T_path,
                       <<36, 49>>,
                       <<48, 32, 124, 65, 58, 50, 46, 48, 48, 48, 48, 48, 48, 48>>,
                       <<48, 32, 45, 50, 46, 48, 48, 48, 48, 48, 48, 48, 48, 48>>}}

Lines == GroupLines \cup PairLines \cup HeaderLines \cup ControlLines \cup {<<>>}

\* 1 -2 |A a    -1 -0.5 |B a    |A a b    flush
FirstLines ==
    {<<49, 32, 45, 50, 32, 124, 65, 32, 97, 10>>,
     <<45, 49, 32, 45, 48, 46, 53, 32, 124, 66, 32, 97, 10>>,
     <<124, 65, 32, 97, 32, 98, 10>>,
     T_flush \o NL}

\* 1 |A a    |B a b    1 2 |C 3
SecondLines ==
    {<<49, 32, 124, 65, 32, 97, 10>>,
     <<124, 66, 32, 97, 32, 98, 10>>,
     <<49, 32, 50, 32, 124, 67, 32, 51, 10>>}

\* Token lists of whole lines that are split into a cached prefix and a remainder:
\* 1 |A a |B b:0.5    |B b |A:2 a    -1 2 |A a b |C 3    1 |A a:x
SplitBases ==
    {<<<<49>>, <<124, 65>>, <<97>>, <<124, 66>>, <<98, 58, 48, 46, 53>>>>,
     <<<<124, 66>>, <<98>>, <<124, 65, 58, 50>>, <<97>>>>,
     <<<<45, 49>>, <<50>>, <<124, 65>>, <<97>>, <<98>>, <<124, 67>>, <<51>>>>,
     <<<<49>>, <<124, 65>>, <<97, 58, 120>>>>}

\* The prefix of the first n tokens, up to and including the separating space
SplitPrefix(toks, n) ==
    Join(SubSeq(toks, 1, n)) \o (IF 0 < n /\ n < Len(toks) THEN <<32>> ELSE <<>>)

SplitRest(toks, n) == Join(SubSeq(toks, n + 1, Len(toks)))

\* The inputs of the calls to come: lines for next_vowpal, or a cached prefix
\* followed by the remainder of its line
Inputs ==
    {[mode |-> "lines", lines |-> <<l>>] : l \in Lines}
    \cup {[mode |-> "lines", lines |-> <<l1, l2>>] : l1 \in FirstLines, l2 \in SecondLines}
    \cup UNION {{[mode |-> "split",
                   lines |-> <<SplitPrefix(b, n) \o NL, SplitRest(b, n) \o NL>>]
                  : n \in 0..Len(b)} : b \in SplitBases}
    \cup {[mode |-> "split", lines |-> <<<<>>, Join(b) \o NL>>] : b \in SplitBases}
    \cup {[mode |-> "split", lines |-> <<Join(b) \o <<32>> \o NL, <<>>>>] : b \in SplitBases}

(***************************************************************************)
(* The parser as a state machine: one action per public method.            *)
(***************************************************************************)
InitParser ==
    /\ GraphOff /\ LossOff /\ CopyOff /\ InitOff /\ HogwildOff /\ ChainOff /\ MoreOff
    /\ ps_input \in Inputs
    /\ tmp_read_buf = <<>>
    /\ output_buffer = [i \in 1..(vw_map.num_namespaces + HEADER_LEN) |-> U32(0)]
    /\ ps_result = <<>>
    /\ ps_call = "none"
    /\ ps_src = <<>>
    /\ ps_before = <<>>
    /\ ps_prev = <<>>

\* The bookkeeping of a call that read `input`
ParserCalled(name, input) ==
    /\ ps_call' = name
    /\ ps_src' = input
    /\ ps_before' = tmp_read_buf
    /\ ps_prev' = ps_result
    /\ ps_input' = [ps_input EXCEPT !.lines = Tail(@)]
    /\ UNCHANGED <<graphVars, lossVars, copyVars, initVars, hogVars, chainVars, moreVars>>

\* What a call leaves behind: the bytes read in tmp_read_buf, and either the
\* empty buffer of an exhausted input or the result r of next_vowpal_to_size
ParserReturned(buf, tmp_read_buf_size, size, r) ==
    /\ tmp_read_buf' = buf
    /\ IF tmp_read_buf_size = 0
       THEN ps_result' = Returned_empty /\ output_buffer' = output_buffer
       ELSE /\ ps_result' = [Returned_buffer(r) EXCEPT
                               !.size = IF r.kind = "Ok" THEN size ELSE 0]
            /\ output_buffer' = r.out

\* read_until(0x0a, &mut self.tmp_read_buf) of the next input
NextInput == Head(ps_input.lines)

\* VowpalParser::next_vowpal
VowpalParser_next_vowpal ==
    /\ ps_input.mode = "lines" /\ ps_input.lines # <<>>
    /\ ParserReturned(NextInput, Len(NextInput), 0,
                      next_vowpal_to_size(NextInput, Len(NextInput), output_buffer))
    /\ ParserCalled("next_vowpal", NextInput)

\* VowpalParser::next_vowpal_with_size
VowpalParser_next_vowpal_with_size ==
    /\ ps_input.mode = "split" /\ Len(ps_input.lines) = 2
    /\ ParserReturned(NextInput, Len(NextInput),
                      IF NextInput # <<>> /\ NextInput[Len(NextInput)] = 10
                      THEN Len(NextInput) - 1 ELSE Len(NextInput),
                      next_vowpal_to_size(NextInput, Len(NextInput), output_buffer))
    /\ ParserCalled("next_vowpal_with_size", NextInput)

\* Variant: the cached bytes are dropped
with_cache_buffer_dropped(buf, input, cached_tmp_read_buf_size) == input

\* tmp_read_buf after truncate(cached_tmp_read_buf_size) and read_until
with_cache_buffer(buf, input, cached_tmp_read_buf_size) ==
    truncate(buf, cached_tmp_read_buf_size) \o input

\* next_vowpal_with_cache once tmp_read_buf holds the cached bytes and the input
ParseCached(buf, tmp_read_buf_size) ==
    ParserReturned(buf, tmp_read_buf_size, 0,
                   next_vowpal_to_size(buf, tmp_read_buf_size, output_buffer))

\* VowpalParser::next_vowpal_with_cache, given the size the call before returned
VowpalParser_next_vowpal_with_cache ==
    /\ ps_input.mode = "split" /\ Len(ps_input.lines) = 1
    /\ ps_call = "next_vowpal_with_size" /\ ps_result.kind = "Ok"
    /\ ParseCached(with_cache_buffer(tmp_read_buf, NextInput, ps_result.size),
                   Len(NextInput) + ps_result.size)
    /\ ParserCalled("next_vowpal_with_cache", NextInput)

NextParser ==
    \/ VowpalParser_next_vowpal
    \/ VowpalParser_next_vowpal_with_size
    \/ VowpalParser_next_vowpal_with_cache

SpecParser == InitParser /\ [][NextParser]_vars

(***************************************************************************)
(* How a line reads: its tokens, its label, its importance, its namespaces *)
(* and their features.                                                     *)
(***************************************************************************)
StripNewline(l) == IF l # <<>> /\ l[Len(l)] = 10 THEN SubSeq(l, 1, Len(l) - 1) ELSE l

\* The tokens between the spaces of a line
RECURSIVE SplitAtSpaces(_)
SplitAtSpaces(l) ==
    IF l = <<>> THEN <<>>
    ELSE IF l[1] = 32 THEN SplitAtSpaces(Tail(l))
    ELSE LET stops == {i \in DOMAIN l : l[i] = 32}
             n == IF stops = {} THEN Len(l) + 1 ELSE CHOOSE i \in stops : \A j \in stops : i <= j
         IN  <<SubSeq(l, 1, n - 1)>> \o SplitAtSpaces(SubSeq(l, n, Len(l)))

LineTokens(l) == SplitAtSpaces(StripNewline(l))

IsBar(t) == t # <<>> /\ t[1] = 124

\* name[:weight]: the part before the first colon and the part after it
ColonAt(t) ==
    LET cs == {i \in DOMAIN t : t[i] = 58}
    IN  IF cs = {} THEN Len(t) + 1 ELSE CHOOSE i \in cs : \A j \in cs : i <= j

TokenName(t) == SubSeq(t, IF IsBar(t) THEN 2 ELSE 1, ColonAt(t) - 1)

HasWeight(t) == ColonAt(t) <= Len(t)

TokenWeightText(t) == SubSeq(t, ColonAt(t) + 1, Len(t))

IsNumeric(text) == text = <<78, 79, 78, 69>> \/ ParseF32(text).ok

NumericValue(text) == IF text = <<78, 79, 78, 69>> THEN F32_NAN ELSE ParseF32(text).f

TokenWeight(t) == IF HasWeight(t) THEN NumericValue(TokenWeightText(t)) ELSE F32_ONE

IsControlLine(l) ==
    LET toks == LineTokens(l)
    IN  toks # <<>> /\ toks[1] \in {T_flush, T_hogwild_load}

HasLabel(toks) == toks # <<>> /\ ~IsBar(toks[1])

HasImportance(toks) == HasLabel(toks) /\ Len(toks) >= 2 /\ ~IsBar(toks[2])

\* The number of tokens the label and the importance take
HeaderTokens(toks) == IF HasImportance(toks) THEN 2 ELSE IF HasLabel(toks) THEN 1 ELSE 0

BarPositions(toks) == {k \in DOMAIN toks : IsBar(toks[k])}

\* The namespace token that token k stands under, 0 when there is none
BarBefore(toks, k) ==
    LET bs == {b \in BarPositions(toks) : b < k}
    IN  IF bs = {} THEN 0 ELSE CHOOSE b \in bs : \A c \in bs : c <= b

FeaturePositions(toks) ==
    {k \in DOMAIN toks : k > HeaderTokens(toks) /\ ~IsBar(toks[k])}

Declared(name) == name \in DOMAIN vw_map.map_vwname_to_namespace_descriptor

\* The line has one of the defects a parse has to report
Malformed(l) ==
    LET toks == LineTokens(l)
    IN  \/ HasLabel(toks) /\ toks[1] \notin {<<49>>, <<45, 49>>}
        \/ HasImportance(toks) /\ ~IsNumeric(toks[2])
        \/ \E k \in FeaturePositions(toks) : BarBefore(toks, k) = 0
        \/ \E k \in BarPositions(toks) : ~Declared(TokenName(toks[k]))
        \/ \E k \in DOMAIN toks :
              k > HeaderTokens(toks) /\ HasWeight(toks[k]) /\ ~IsNumeric(TokenWeightText(toks[k]))

\* C11: for every line that is not a flush or hogwild_load control line,
\* next_vowpal returns an error and no example buffer whenever the line has
\* an undeclared namespace name, an unparsable importance, namespace weight
\* or feature weight, a label token other than exactly 1 or -1, or feature
\* tokens that no namespace bar precedes.
C11_MalformedLineIsError ==
    (/\ ps_call = "next_vowpal" /\ ps_src # <<>>
     /\ ~IsControlLine(ps_src) /\ Malformed(ps_src))
    => ps_result.kind # "Ok"

\* The defects the parse does report: an undeclared namespace name and an
\* unparsable importance or weight of a line whose first byte is a label
\* or a bar
C11_ReportedDefects ==
    (/\ ps_call = "next_vowpal" /\ ps_src # <<>> /\ ps_src[Len(ps_src)] = 10
     /\ LET toks == LineTokens(ps_src)
        IN  /\ toks # <<>> /\ toks[1][1] \in {49, 45, 124}
            /\ \/ HasImportance(toks) /\ ~IsNumeric(toks[2])
               \/ \E k \in BarPositions(toks) : ~Declared(TokenName(toks[k]))
               \/ \E k \in DOMAIN toks :
                     /\ k > HeaderTokens(toks) /\ BarBefore(toks, k + 1) # 0
                     /\ HasWeight(toks[k]) /\ ~IsNumeric(TokenWeightText(toks[k])))
    => ps_result.kind = "Err"

\* What a parser that has parsed nothing before returns for a line
FreshResult(l) ==
    Returned_buffer(next_vowpal_to_size(l, Len(l),
        [i \in 1..(vw_map.num_namespaces + HEADER_LEN) |-> U32(0)]))

NegativeImportance(l) ==
    LET toks == LineTokens(l)
    IN  /\ toks # <<>> /\ toks[1] \in {<<49>>, <<45, 49>>}
        /\ HasImportance(toks) /\ IsNumeric(toks[2])
        /\ LET v == NumericValue(toks[2]) IN ~v.nan /\ v.neg /\ v.mag > 0

NegativeImportanceError(r) ==
    r # <<>> /\ r.kind = "Err" /\ r.msg = "Example importance cannot be negative"
    /\ r.buffer = <<>>

\* C12: for every labelled line whose importance token parses to a value
\* below 0, next_vowpal returns the error "Example importance cannot be
\* negative" and no example buffer; the call after it, on a valid line,
\* returns what a parser that never saw the failing line returns.
C12_NegativeImportanceRejected ==
    /\ (ps_call = "next_vowpal" /\ NegativeImportance(ps_src))
           => NegativeImportanceError(ps_result)
    /\ (ps_call = "next_vowpal" /\ NegativeImportanceError(ps_prev)
            /\ FreshResult(ps_src).kind = "Ok")
           => (ps_result = FreshResult(ps_src) /\ ps_result.buffer = output_buffer)

C12_Witness ==
    /\ ps_call = "next_vowpal" /\ NegativeImportanceError(ps_prev)
    /\ NegativeImportance(ps_before)
    /\ ps_result.kind = "Ok" /\ Len(ps_result.buffer) > vw_map.num_namespaces + HEADER_LEN

\* The positions of the feature tokens that stand under a namespace token
\* named `name`, in line order
RECURSIVE Ascending(_)
Ascending(S) ==
    IF S = {} THEN <<>>
    ELSE LET m == CHOOSE x \in S : \A y \in S : x <= y
         IN  <<m>> \o Ascending(S \ {m})

FeaturesOfName(toks, name) ==
    Ascending({k \in FeaturePositions(toks) :
                  /\ BarBefore(toks, k) # 0
                  /\ TokenName(toks[BarBefore(toks, k)]) = name})

\* The (hash, weight bits) pair a feature token stands for
FeatureHash(toks, k) ==
    [hash32_with_seed(TokenName(toks[k]), hash32(TokenName(toks[BarBefore(toks, k)])))
        EXCEPT !.msb = 0]

FeatureBits(toks, k, format) ==
    IF format = "F32" THEN to_bits(NumericValue(TokenName(toks[k])))
    ELSE to_bits(F32_mul(TokenWeight(toks[BarBefore(toks, k)]), TokenWeight(toks[k])))

IsOne(f) == ~f.nan /\ ~f.neg /\ f.mag = 2

\* Whether the single feature at position k is kept in the descriptor cell:
\* by the weights each being 1.0, or by their product being 1.0
KeptInline(toks, k, format, rule) ==
    /\ format = "Categorical"
    /\ IF rule = "each"
       THEN IsOne(TokenWeight(toks[BarBefore(toks, k)])) /\ IsOne(TokenWeight(toks[k]))
       ELSE IsOne(F32_mul(TokenWeight(toks[BarBefore(toks, k)]), TokenWeight(toks[k])))

\* The descriptor cell of one declared namespace and the spill it points to
DescriptorAsDescribed(buffer, toks, name, rule) ==
    LET descriptor == vw_map.map_vwname_to_namespace_descriptor[name]
        cell == buffer[descriptor.namespace_index + HEADER_LEN + 1]
        feats == FeaturesOfName(toks, name)
        start == cell.low \div (2 ^ 16)
        end == cell.low % (2 ^ 16)
    IN  IF feats = <<>> THEN cell = NO_FEATURES
        ELSE IF Len(feats) = 1 /\ KeptInline(toks, feats[1], descriptor.namespace_format, rule)
        THEN cell = FeatureHash(toks, feats[1])
        ELSE /\ cell.msb = 1
             /\ end = start + 2 * Len(feats) /\ end <= Len(buffer)
             /\ start >= vw_map.num_namespaces + HEADER_LEN
             /\ \A i \in DOMAIN feats :
                   /\ buffer[start + 2 * i - 1] = FeatureHash(toks, feats[i])
                   /\ buffer[start + 2 * i] =
                         FeatureBits(toks, feats[i], descriptor.namespace_format)

BufferAsDescribed(buffer, l, rule) ==
    /\ buffer[1] = U32(Len(buffer))
    /\ \A name \in DOMAIN vw_map.map_vwname_to_namespace_descriptor :
          DescriptorAsDescribed(buffer, LineTokens(l), name, rule)

\* The line ends with a newline, has at most one space before it, and names
\* no namespace twice
RegularLine(l) ==
    LET body == StripNewline(l)
        toks == LineTokens(l)
    IN  /\ l # <<>> /\ l[Len(l)] = 10
        /\ ~(Len(body) >= 2 /\ body[Len(body)] = 32 /\ body[Len(body) - 1] = 32)
        /\ \A j, k \in BarPositions(toks) :
              TokenName(toks[j]) = TokenName(toks[k]) => j = k

ParsedOk == ps_call = "next_vowpal" /\ ps_result.kind = "Ok" /\ ps_result.buffer # <<>>

C13_WitnessInline ==
    /\ ParsedOk /\ RegularLine(ps_src)
    /\ \E a \in DOMAIN vw_map.map_vwname_to_namespace_descriptor :
          /\ Len(FeaturesOfName(LineTokens(ps_src), a)) = 1
          /\ ps_result.buffer[vw_map.map_vwname_to_namespace_descriptor[a].namespace_index
                              + HEADER_LEN + 1].msb = 0

\* The path of a line hogwild_load <path>, <<>> when it has none
CommandPath(l) == IF Len(LineTokens(l)) >= 2 THEN LineTokens(l)[2] ELSE <<>>

IsFlushLine(l) == LineTokens(l) = <<T_flush>>

IsHogwildLoadLine(l) == LineTokens(l) # <<>> /\ LineTokens(l)[1] = T_hogwild_load

\* C14: a line `flush` makes next_vowpal return FlushCommand; a line
\* `hogwild_load <path>`, with any number of spaces around the path, makes it
\* return HogwildLoadCommand whose filename is exactly <path>, with and
\* without a newline at the end; `hogwild_load` with no path is an error;
\* no control line is returned as an example buffer.
C14_ControlLines ==
    ps_call = "next_vowpal" =>
        /\ IsFlushLine(ps_src) => ps_result.kind = "FlushCommand"
        /\ (IsHogwildLoadLine(ps_src) /\ Len(LineTokens(ps_src)) = 2)
              => (ps_result.kind = "HogwildLoadCommand"
                  /\ ps_result.filename = CommandPath(ps_src))
        /\ (IsHogwildLoadLine(ps_src) /\ Len(LineTokens(ps_src)) = 1)
              => ps_result.kind = "Err"
        /\ (IsFlushLine(ps_src) \/ IsHogwildLoadLine(ps_src)) => ps_result.kind # "Ok"

\* What the parse does with control lines: flush in every form, the path of
\* a line without a newline, and never an example buffer
C14_ControlLinesUnterminated ==
    ps_call = "next_vowpal" =>
        /\ IsFlushLine(ps_src) => ps_result.kind = "FlushCommand"
        /\ (/\ IsHogwildLoadLine(ps_src) /\ Len(LineTokens(ps_src)) = 2
            /\ ps_src[Len(ps_src)] # 10)
              => (ps_result.kind = "HogwildLoadCommand"
                  /\ ps_result.filename = CommandPath(ps_src))
        /\ (IsFlushLine(ps_src) \/ IsHogwildLoadLine(ps_src)) => ps_result.kind # "Ok"

\* What next_vowpal returns for a line, on a parser that has parsed nothing before
NextVowpalResult(l) == IF l = <<>> THEN Returned_empty ELSE FreshResult(l)

\* The cached prefix the last next_vowpal_with_cache call kept, and the line
\* it and the remainder make
CachedPrefix == SubSeq(ps_before, 1, ps_prev.size)

WholeLine == CachedPrefix \o ps_src

\* C15 (as stated): for every split of an example line at a token boundary,
\* the empty prefix included, next_vowpal_with_size on the prefix followed by
\* a newline returns a size, and next_vowpal_with_cache on the remainder
\* with that size returns the buffer of next_vowpal on the whole line.
C15_CachedParseAnyPrefix ==
    /\ (/\ ps_call = "next_vowpal_with_size"
        /\ ps_src # <<>> /\ ps_src[Len(ps_src)] = 10
        /\ NextVowpalResult(StripNewline(ps_src) \o Head(ps_input.lines)).kind = "Ok")
          => (ps_result.kind = "Ok" /\ ps_result.size = Len(ps_src) - 1)
    /\ ps_call = "next_vowpal_with_cache"
          => ps_result = NextVowpalResult(WholeLine)

\* C15 (amended): when next_vowpal_with_size returned a size for the prefix,
\* that size is the length of the prefix without its newline, and
\* next_vowpal_with_cache on the remainder with that size returns what
\* next_vowpal returns for the whole line.
C15_CachedParse ==
    /\ (ps_call = "next_vowpal_with_size" /\ ps_result.kind = "Ok")
          => ps_result.size = Len(StripNewline(ps_src))
    /\ ps_call = "next_vowpal_with_cache"
          => /\ ps_prev.size = Len(StripNewline(ps_before))
             /\ tmp_read_buf = WholeLine
             /\ ps_result = NextVowpalResult(WholeLine)

\* A line cut between two namespaces, parsed from the cache into a buffer
\* with a spill; and a line that was cached whole
C15_Witness ==
    /\ ps_call = "next_vowpal_with_cache"
    /\ CachedPrefix # <<>> /\ Len(ps_src) > 1
    /\ ps_result.kind = "Ok"
    /\ Len(ps_result.buffer) > vw_map.num_namespaces + HEADER_LEN
    /\ ps_result.buffer # ps_prev.buffer

(***************************************************************************)
(* The hogwild trainer: one producer, a channel, and workers that learn    *)
(* on shared weights.                                                      *)
(***************************************************************************)
MaxExamples == 2

NumWorkers == 2

Workers == 1..NumWorkers

WeightCells == 1..2

InitialWeight == 100

\* The feature buffers digest_example is given: buffer number `id` leads
\* to one update of one weight cell
SentBuffers(id) == {[id |-> id, cell |-> c, update |-> 2 ^ (id - 1)] : c \in WeightCells}

\* Variant: every worker is handed the same port buffer
port_buffer_shared(w) == 1

\* port_buffer.clone(): the port buffer worker w is built with
port_buffer_clone(w) == w

\* Variant: the update is not applied
weight_unchanged(weight, update_) == weight

\* *ffm_weights.get_unchecked_mut(feature_index) -= update, on the value read
weight_minus_update(weight, update_) == weight - update_

\* HogwildTrainer::new: the channel, the workers and their threads
InitHogwild ==
    /\ GraphOff /\ LossOff /\ CopyOff /\ InitOff /\ ParserOff /\ ChainOff /\ MoreOff
    /\ hw_channel = <<>>
    /\ hw_sender = "alive"
    /\ hw_next = 1
    /\ hw_pc = [w \in Workers |-> "lock"]
    /\ hw_poisoned = FALSE
    /\ hw_held = [w \in Workers |-> <<>>]
    /\ hw_log = [w \in Workers |-> <<>>]
    /\ hw_port = [p \in Workers |-> [tape |-> 0, users |-> {}]]
    /\ hw_weights = [c \in WeightCells |-> InitialWeight]
    /\ hw_reg = [w \in Workers |-> 0]

HogwildFrame ==
    UNCHANGED <<graphVars, lossVars, copyVars, initVars, parserVars, chainVars, moreVars>>

\* HogwildTrainer::digest_example: sender.send on the channel of mpsc::channel()
HogwildTrainer_digest_example ==
    /\ hw_sender = "alive" /\ hw_next <= MaxExamples
    /\ \E feature_buffer \in SentBuffers(hw_next) :
          hw_channel' = Append(hw_channel, feature_buffer)
    /\ hw_next' = hw_next + 1
    /\ UNCHANGED <<hw_sender, hw_pc, hw_poisoned, hw_held, hw_log, hw_port, hw_weights, hw_reg>>
    /\ HogwildFrame

\* The trainer is dropped, and its sender with it
HogwildTrainer_drop ==
    /\ hw_sender = "alive"
    /\ hw_sender' = "dropped"
    /\ UNCHANGED <<hw_channel, hw_next, hw_pc, hw_poisoned, hw_held, hw_log, hw_port,
                   hw_weights, hw_reg>>
    /\ HogwildFrame

\* receiver.lock().unwrap(): the lock is taken when no worker holds it; a
\* poisoned lock makes unwrap panic
HogwildWorker_lock(w) ==
    /\ hw_pc[w] = "lock"
    /\ \A v \in Workers : hw_pc[v] # "recv"
    /\ hw_pc' = [hw_pc EXCEPT ![w] = IF hw_poisoned THEN "panicked" ELSE "recv"]
    /\ UNCHANGED <<hw_channel, hw_sender, hw_next, hw_poisoned, hw_held, hw_log, hw_port,
                   hw_weights, hw_reg>>
    /\ HogwildFrame

\* .recv().unwrap() with the lock held: the oldest feature buffer, or, once
\* the channel is empty and the sender is gone, a panic that poisons the lock
HogwildWorker_recv(w) ==
    /\ hw_pc[w] = "recv"
    /\ IF hw_channel # <<>>
       THEN /\ hw_held' = [hw_held EXCEPT ![w] = Head(hw_channel)]
            /\ hw_channel' = Tail(hw_channel)
            /\ hw_log' = [hw_log EXCEPT ![w] = Append(@, [ev |-> "recv", buffer |-> Head(hw_channel)])]
            /\ hw_pc' = [hw_pc EXCEPT ![w] = "learn"]
            /\ UNCHANGED hw_poisoned
       ELSE /\ hw_sender = "dropped"
            /\ hw_pc' = [hw_pc EXCEPT ![w] = "panicked"]
            /\ hw_poisoned' = TRUE
            /\ UNCHANGED <<hw_held, hw_channel, hw_log>>
    /\ UNCHANGED <<hw_sender, hw_next, hw_port, hw_weights, hw_reg>>
    /\ HogwildFrame

\* regressor.learn, first part: the forward pass on the worker's port buffer
\* and the read of the weight
HogwildWorker_learn_read(w) ==
    /\ hw_pc[w] = "learn"
    /\ hw_reg' = [hw_reg EXCEPT ![w] = hw_weights[hw_held[w].cell]]
    /\ hw_port' = [hw_port EXCEPT ![port_buffer_clone(w)] =
                      [tape |-> hw_held[w].id, users |-> @.users \cup {w}]]
    /\ hw_pc' = [hw_pc EXCEPT ![w] = "write"]
    /\ UNCHANGED <<hw_channel, hw_sender, hw_next, hw_poisoned, hw_held, hw_log, hw_weights>>
    /\ HogwildFrame

\* regressor.learn, second part: the write of the updated weight
HogwildWorker_learn_write(w) ==
    /\ hw_pc[w] = "write"
    /\ hw_weights' = [hw_weights EXCEPT ![hw_held[w].cell] =
                         weight_minus_update(hw_reg[w], hw_held[w].update)]
    /\ hw_log' = [hw_log EXCEPT ![w] = Append(@, [ev |-> "learn", buffer |-> hw_held[w]])]
    /\ hw_held' = [hw_held EXCEPT ![w] = <<>>]
    /\ hw_pc' = [hw_pc EXCEPT ![w] = "lock"]
    /\ UNCHANGED <<hw_channel, hw_sender, hw_next, hw_poisoned, hw_port, hw_reg>>
    /\ HogwildFrame

\* HogwildWorker::train: loop { recv; learn }
HogwildWorker_train(w) ==
    \/ HogwildWorker_lock(w)
    \/ HogwildWorker_recv(w)
    \/ HogwildWorker_learn_read(w)
    \/ HogwildWorker_learn_write(w)

NextHogwild ==
    \/ HogwildTrainer_digest_example
    \/ HogwildTrainer_drop
    \/ \E w \in Workers : HogwildWorker_train(w)

SpecHogwild == InitHogwild /\ [][NextHogwild]_vars

\* C16: the channel is bounded: fewer feature buffers are sent and not yet
\* received than the producer has to send, whatever the workers do, because
\* digest_example blocks while the channel is full.
C16_ChannelBounded == Len(hw_channel) < MaxExamples

\* The producer is never made to wait: as long as it has a feature buffer to
\* send, digest_example can send it
C16_SendNeverBlocks ==
    (hw_sender = "alive" /\ hw_next <= MaxExamples) => ENABLED HogwildTrainer_digest_example

\* C17: after the sender is dropped, no worker panics: each one learns what
\* is queued and then leaves its train loop normally.
C17_WorkersExitNormally == \A w \in Workers : hw_pc[w] # "panicked"

\* What does hold at shutdown: a worker panics only once the sender is gone
\* and the channel is empty, holding no feature buffer
C17_PanicOnlyWhenDrained ==
    \A w \in Workers :
        hw_pc[w] = "panicked" => (hw_sender = "dropped" /\ hw_channel = <<>> /\ hw_held[w] = <<>>)

\* The feature buffers worker w has learned that update weight cell c
LearnedOn(w, c) ==
    {hw_log[w][i].buffer : i \in {j \in DOMAIN hw_log[w] :
                                     hw_log[w][j].ev = "learn" /\ hw_log[w][j].buffer.cell = c}}

\* Two workers have each applied one update to cell c, and nothing else has
RacedOn(c, a, b) ==
    /\ LearnedOn(1, c) = {a} /\ LearnedOn(2, c) = {b}

\* C18: when two workers have each applied one update to the same weight
\* cell, as unlocked read-modify-writes, the weight reflects both updates or
\* exactly one of them, under every interleaving, and a weight cell that no
\* learned feature buffer updates is as it was.
C18_AtMostOneUpdateLost ==
    \A c \in WeightCells :
        /\ \A a, b \in UNION {SentBuffers(id) : id \in 1..MaxExamples} :
              RacedOn(c, a, b)
                 => hw_weights[c] \in {InitialWeight - a.update - b.update,
                                       InitialWeight - a.update,
                                       InitialWeight - b.update}
        /\ (\A w \in Workers : LearnedOn(w, c) = {}) => hw_weights[c] = InitialWeight

\* Both workers have updated one cell and the first update written was lost
C18_Witness ==
    \E c \in WeightCells :
        \E a, b \in UNION {SentBuffers(id) : id \in 1..MaxExamples} :
            /\ RacedOn(c, a, b)
            /\ hw_weights[c] \in {InitialWeight - a.update, InitialWeight - b.update}
            /\ \A d \in WeightCells \ {c} : hw_weights[d] = InitialWeight

\* Where feature buffer number id is: in the channel, with a worker, learned
InChannel(id) == {i \in DOMAIN hw_channel : hw_channel[i].id = id}

HeldBy(id) == {w \in Workers : hw_held[w] # <<>> /\ hw_held[w].id = id}

LearnEvents(id) ==
    {<<w, i>> \in Workers \X (1..(2 * MaxExamples)) :
        i \in DOMAIN hw_log[w] /\ hw_log[w][i].ev = "learn" /\ hw_log[w][i].buffer.id = id}

\* The log of a worker is recv a, learn a, recv b, learn b, ...
OneAtATime(w) ==
    \A i \in DOMAIN hw_log[w] :
        IF i % 2 = 1
        THEN /\ hw_log[w][i].ev = "recv"
             /\ (i = Len(hw_log[w]) => hw_held[w] = hw_log[w][i].buffer)
        ELSE /\ hw_log[w][i].ev = "learn"
             /\ hw_log[w][i].buffer = hw_log[w][i - 1].buffer

\* C19: every feature buffer digest_example accepted is in the channel, or
\* with exactly one worker, or learned by exactly one worker exactly once;
\* each worker learns what it receives one at a time, in the order received;
\* and each worker's port buffer is used by that worker alone.
C19_LearnedOnceInOrder ==
    /\ \A id \in 1..(hw_next - 1) :
          Cardinality(InChannel(id)) + Cardinality(HeldBy(id)) + Cardinality(LearnEvents(id)) = 1
    /\ \A w \in Workers : OneAtATime(w)
    /\ \A p \in Workers : hw_port[p].users \subseteq {p}

\* Both workers have learned a feature buffer, each on its own port buffer
C19_Witness ==
    /\ hw_next = MaxExamples + 1 /\ hw_channel = <<>>
    /\ \A w \in Workers : hw_held[w] = <<>> /\ Len(hw_log[w]) = 2
    /\ \A p \in Workers : hw_port[p].users = {p} /\ hw_port[p].tape = hw_log[p][2].buffer.id

(***************************************************************************)
(* A chain of blocks without weights, each calling the blocks after it     *)
(* from inside its own forward_backward.                                   *)
(***************************************************************************)
MaxBlocks == 3

\* Tape values: sign * alpha^exp, which the two blocks never leave
Val(sign, exp) == [sign |-> sign, exp |-> IF sign = 0 THEN 0 ELSE exp]

ValZero == Val(0, 0)

ValOne == Val(1, 0)

\* BlockLeakyRELU.alpha
ValAlpha == Val(1, 1)

ValMul(a, b) == Val(a.sign * b.sign, a.exp + b.exp)

BlockKinds == {"BlockLeakyRELU", "BlockStopBackward"}

\* Chains of one to MaxBlocks blocks, one value wide; block i reads cell i of
\* the tape and writes cell i + 1
Chains == UNION {[1..n -> BlockKinds] : n \in 1..MaxBlocks}

input_offset(i) == i

output_offset(i) == i + 1

\* Variant: the part after the call runs whatever `update` is
if_update_always(update_) == TRUE

\* if update { ... } after the call of the further blocks
if_update(update_) == update_

InitChain ==
    /\ GraphOff /\ LossOff /\ CopyOff /\ InitOff /\ ParserOff /\ HogwildOff /\ MoreOff
    /\ ch_blocks \in Chains
    /\ ch_update \in BOOLEAN
    /\ \E x \in {Val(-1, 0), ValZero, ValOne} :
          ch_tape = [c \in 1..(Len(ch_blocks) + 1) |-> IF c = 1 THEN x ELSE ValZero]
    /\ ch_pos = 1
    /\ ch_phase = "forward"
    /\ ch_trace = <<>>

ChainFrame ==
    UNCHANGED <<graphVars, lossVars, copyVars, initVars, parserVars, hogVars, moreVars,
                ch_blocks, ch_update>>

\* block_helpers::forward_backward(further_blocks, ...): the first of the
\* further blocks runs next; with none left the call returns
CallFurtherBlocks ==
    IF ch_pos < Len(ch_blocks)
    THEN ch_pos' = ch_pos + 1 /\ ch_phase' = "forward"
    ELSE ch_pos' = ch_pos /\ ch_phase' = "backward"

\* The return of block ch_pos to the block that called it
ReturnToCaller ==
    IF ch_pos > 1
    THEN ch_pos' = ch_pos - 1 /\ ch_phase' = "backward"
    ELSE ch_pos' = 0 /\ ch_phase' = "done"

\* BlockLeakyRELU::forward_backward up to the call of the further blocks
BlockLeakyRELU_forward_part ==
    /\ ch_phase = "forward" /\ ch_blocks[ch_pos] = "BlockLeakyRELU"
    /\ LET x == ch_tape[input_offset(ch_pos)]
       IN  ch_tape' = [ch_tape EXCEPT
                          ![output_offset(ch_pos)] = IF x.sign < 0 THEN ValMul(ValAlpha, x) ELSE x,
                          ![input_offset(ch_pos)] = IF x.sign <= 0 THEN ValAlpha ELSE ValOne]
    /\ ch_trace' = Append(ch_trace, <<ch_pos, "forward">>)
    /\ CallFurtherBlocks
    /\ ChainFrame

\* BlockLeakyRELU::forward_backward after the call of the further blocks
BlockLeakyRELU_backward_part ==
    /\ ch_phase = "backward" /\ ch_blocks[ch_pos] = "BlockLeakyRELU"
    /\ IF if_update(ch_update)
       THEN /\ LET gradient == ch_tape[output_offset(ch_pos)]
               IN  ch_tape' = [ch_tape EXCEPT ![input_offset(ch_pos)] = ValMul(@, gradient)]
            /\ ch_trace' = Append(ch_trace, <<ch_pos, "backward">>)
       ELSE UNCHANGED <<ch_tape, ch_trace>>
    /\ ReturnToCaller
    /\ ChainFrame

\* BlockStopBackward::forward_backward up to the call of the further blocks
BlockStopBackward_forward_part ==
    /\ ch_phase = "forward" /\ ch_blocks[ch_pos] = "BlockStopBackward"
    /\ ch_tape' = [ch_tape EXCEPT ![output_offset(ch_pos)] = ch_tape[input_offset(ch_pos)]]
    /\ ch_trace' = Append(ch_trace, <<ch_pos, "forward">>)
    /\ CallFurtherBlocks
    /\ ChainFrame

\* BlockStopBackward::forward_backward after the call of the further blocks
BlockStopBackward_backward_part ==
    /\ ch_phase = "backward" /\ ch_blocks[ch_pos] = "BlockStopBackward"
    /\ IF if_update(ch_update)
       THEN /\ ch_tape' = [ch_tape EXCEPT ![input_offset(ch_pos)] = ValZero]
            /\ ch_trace' = Append(ch_trace, <<ch_pos, "backward">>)
       ELSE UNCHANGED <<ch_tape, ch_trace>>
    /\ ReturnToCaller
    /\ ChainFrame

NextChain ==
    \/ BlockLeakyRELU_forward_part
    \/ BlockLeakyRELU_backward_part
    \/ BlockStopBackward_forward_part
    \/ BlockStopBackward_backward_part

SpecChain == InitChain /\ [][NextChain]_vars

\* The steps of a whole call: forward 1..n, then, with update, backward n..1
ExpectedTrace(n, update_) ==
    [i \in 1..n |-> <<i, "forward">>]
    \o (IF update_ THEN [i \in 1..n |-> <<n + 1 - i, "backward">>] ELSE <<>>)

\* C20: in one forward_backward call on a chain b1..bn with update = true the
\* forward steps run in the order b1..bn, each before the next starts, all of
\* them before any backward step, and the backward steps run in the order
\* bn..b1, each exactly once; with update = false no backward step runs.
C20_ForwardThenBackwardReversed ==
    LET expected == ExpectedTrace(Len(ch_blocks), ch_update)
    IN  /\ Len(ch_trace) <= Len(expected)
        /\ ch_trace = SubSeq(expected, 1, Len(ch_trace))
        /\ ch_phase = "done" => ch_trace = expected

\* A call with update on a chain of three blocks of both kinds has returned
C20_Witness ==
    /\ ch_phase = "done" /\ ch_update /\ Len(ch_blocks) = 3
    /\ \E i, j \in DOMAIN ch_blocks : ch_blocks[i] # ch_blocks[j]
    /\ ch_trace[Len(ch_blocks) + 1] = <<3, "backward">>
    /\ ch_trace[Len(ch_trace)] = <<1, "backward">>


(***************************************************************************)
(* Properties of the FFM training pass.                                    *)
(***************************************************************************)
\* contra[F][G][t]: the sum over the features f' of field F of
\* value_f' * w_{f',G}[t]
Contra(w, F, G, t) ==
    SumFn([a \in FeaturesIn(F) |->
            fb.ffm_buffer[a].value * w[fb.ffm_buffer[a].hash + G * mi.ffm_k + t]])

\* value_f * (sum - [G == F] * w_{f,F}[t] * value_f) for feature a of the buffer
GradFrom(w, a, G, t, sum) ==
    LET f == fb.ffm_buffer[a]
        own == IF G = FieldOf(f) THEN w[f.hash + FieldOf(f) * mi.ffm_k + t] * f.value ELSE 0
    IN  f.value * (sum - own)

\* The (feature, target field, coordinate) triples whose weight is cell c
UpdatesOf(c) ==
    {x \in (DOMAIN fb.ffm_buffer) \X Fields \X (0..(mi.ffm_k - 1)) :
        fb.ffm_buffer[x[1]].hash + x[2] * mi.ffm_k + x[3] = c}

\* The forward part of a training pass has run: the gradients are cached
GradientsCached == mi.graph = "ffm" /\ pc \in {"fb_loss", "fb_back"}

\* The cached gradient of every (feature, target field, coordinate) is grad
CachedGradientIs(grad(_, _, _)) ==
    \A a \in DOMAIN fb.ffm_buffer, G \in Fields, t \in 0..(mi.ffm_k - 1) :
        local_data_ffm_values[(a - 1) * fb.ffm_fields_count * mi.ffm_k + G * mi.ffm_k + t]
            = grad(a, G, t)

\* Every weight cell went down by calculate_update(g * grad) for each
\* coordinate stored in it, g being the output cell (F, G) as left on the tape
WeightStepIs(grad(_, _, _)) ==
    \A c \in DOMAIN weights :
        weights[c] = w_entry[c]
            - SumFn([x \in UpdatesOf(c) |->
                calculate_update(mi.optimizer, mi.ffm_learning_rate,
                    tape[FieldOf(fb.ffm_buffer[x[1]]) * fb.ffm_fields_count + x[2]]
                    * grad(x[1], x[2], x[3]), opt_entry[c]).update])

GradOwnField(a, G, t) ==
    GradFrom(w_entry, a, G, t, Contra(w_entry, FieldOf(fb.ffm_buffer[a]), G, t))

GradTargetField(a, G, t) ==
    GradFrom(w_entry, a, G, t, Contra(w_entry, G, FieldOf(fb.ffm_buffer[a]), t))

\* C21 as stated: the gradient cached for feature f of field F and target
\* field G is value_f * (contra[F][G] - [G == F] * w_{f,F} * value_f), from
\* the pre-update weights, and the backward step lowers w_{f,G}[t] by
\* calculate_update(g * grad[t]), g being output cell (F, G).
C21_GradientFromOwnField ==
    /\ GradientsCached => CachedGradientIs(GradOwnField)
    /\ (AfterLearn /\ mi.graph = "ffm") => WeightStepIs(GradOwnField)

\* C21, amended: the gradient cached for feature f of field F and target
\* field G is value_f * (contra[G][F] - [G == F] * w_{f,F} * value_f), the sum
\* running over the features of the target field G and their embeddings
\* towards F, from the pre-update weights; the backward step lowers
\* w_{f,G}[t] by calculate_update(g * grad[t]), g being output cell (F, G).
C21_GradientFromTargetField ==
    /\ GradientsCached => CachedGradientIs(GradTargetField)
    /\ (AfterLearn /\ mi.graph = "ffm") => WeightStepIs(GradTargetField)

\* A training pass over features of two fields, whose two contracted sums
\* differ, has changed the weights with a non-zero downstream gradient
C21_Witness ==
    /\ AfterLearn /\ mi.graph = "ffm"
    /\ weights # w_entry
    /\ \E a \in DOMAIN fb.ffm_buffer, G \in Fields :
          /\ G # FieldOf(fb.ffm_buffer[a])
          /\ FeaturesIn(G) # {}
          /\ tape[FieldOf(fb.ffm_buffer[a]) * fb.ffm_fields_count + G] # 0
          /\ GradOwnField(a, G, 0) # GradTargetField(a, G, 0)

(***************************************************************************)
(* Properties of the parser: repeated namespaces, and what a result        *)
(* depends on.                                                             *)
(***************************************************************************)
\* The cells [start, end) a descriptor with the top bit set points to
SpillStart(cell) == cell.low \div (2 ^ 16)

SpillEnd(cell) == cell.low % (2 ^ 16)

\* The feature token at position k is in the buffer: inline in the descriptor
\* cell of its namespace, or as the hash of a pair inside the spill range of
\* that descriptor
Represented(buffer, toks, k) ==
    LET name == TokenName(toks[BarBefore(toks, k)])
        descriptor == vw_map.map_vwname_to_namespace_descriptor[name]
        cell == buffer[descriptor.namespace_index + HEADER_LEN + 1]
    IN  \/ cell.msb = 0 /\ cell = FeatureHash(toks, k)
        \/ /\ cell.msb = 1 /\ cell # NO_FEATURES
           /\ \E i \in SpillStart(cell)..(SpillEnd(cell) - 1) :
                 /\ (i - SpillStart(cell)) % 2 = 0
                 /\ i + 1 \in DOMAIN buffer
                 /\ buffer[i + 1] = FeatureHash(toks, k)

AllRepresented(buffer, toks) ==
    \A k \in FeaturePositions(toks) : BarBefore(toks, k) # 0 => Represented(buffer, toks, k)

NamedTwice(toks) ==
    \E j, k \in BarPositions(toks) : j # k /\ TokenName(toks[j]) = TokenName(toks[k])

Terminated(l) == l # <<>> /\ l[Len(l)] = 10

\* C22: every feature token of a successfully parsed (newline-terminated)
\* line is in the returned buffer, inline in the descriptor of its namespace
\* or as a pair inside the descriptor's spill range, also when the namespace
\* occurs in more than one group of the line.
C22_EveryFeatureRepresented ==
    (ParsedOk /\ Terminated(ps_src)) => AllRepresented(ps_result.buffer, LineTokens(ps_src))

\* The same for lines that name no namespace twice
C22_RepresentedWhenNamedOnce ==
    (ParsedOk /\ Terminated(ps_src) /\ ~NamedTwice(LineTokens(ps_src)))
        => AllRepresented(ps_result.buffer, LineTokens(ps_src))

(***************************************************************************)
(* The memory the FFM kernels touch.  Every element access of the two     *)
(* kernels is get_unchecked: nothing stops an access outside the slice.   *)
(* The kernels' control flow depends on the feature buffer alone, so the  *)
(* positions a call touches are a function of the block and the buffer.   *)
(* st is [idx, buffer, tape, contra]: ffm_buffer_index and the positions  *)
(* touched so far.                                                         *)
(***************************************************************************)
MaxAccessFeatures == 3

MaxFieldsCount == 3

\* fb.ffm_buffer.get_unchecked(i) and friends: position i is noted
Touch(st, positions, cells, scratch) ==
    [st EXCEPT !.buffer = @ \cup positions, !.tape = @ \cup cells, !.contra = @ \cup scratch]

\* `idx >= len || get_unchecked(idx)...` and `idx < len && get_unchecked(idx)...`:
\* the element is read only when the first operand lets the second be evaluated
Probe(buf, idx) == IF idx < Len(buf) THEN {idx} ELSE {}

\* BlockFFM::forward_backward: the cells of contra_fields one field writes
FB_FieldCells(self, m, field_index_ffmk) ==
    LET k == self.ffm_k
        fc == m * k
    IN  UNION {ScalarRange(field_index_ffmk + z * fc, field_index_ffmk + z * fc + (k % STEP))
               \cup LaneRange(field_index_ffmk + z * fc + (k % STEP),
                              field_index_ffmk + z * fc + k)
               : z \in 0..(m - 1)}

RECURSIVE FB_TouchFeatures(_, _, _, _, _)
FB_TouchFeatures(self, buf, m, field_index_ffmk, st) ==
    IF st.idx < Len(buf) /\ buf[st.idx + 1].contra_field_index = field_index_ffmk
    THEN FB_TouchFeatures(self, buf, m, field_index_ffmk,
            [Touch(st, {st.idx, st.idx + 1}, {}, FB_FieldCells(self, m, field_index_ffmk))
                EXCEPT !.idx = st.idx + 1])
    ELSE Touch(st, Probe(buf, st.idx), {}, {})

RECURSIVE FB_TouchFields(_, _, _, _, _)
FB_TouchFields(self, buf, m, field_index, st) ==
    IF field_index >= m THEN st
    ELSE LET field_index_ffmk == field_index * self.ffm_k
             probed == Touch(st, Probe(buf, st.idx), {}, {})
         IN  IF st.idx >= Len(buf) \/ buf[st.idx + 1].contra_field_index > field_index_ffmk
             THEN FB_TouchFields(self, buf, m, field_index + 1,
                    Touch(probed, {}, {}, FB_FieldCells(self, m, field_index_ffmk)))
             ELSE FB_TouchFields(self, buf, m, field_index + 1,
                    FB_TouchFeatures(self, buf, m, field_index_ffmk, probed))

\* The second pass: for (i, feature) in fb.ffm_buffer.iter().enumerate()
FB_TouchGradients(self, buf, m, st) ==
    LET k == self.ffm_k
    IN  Touch(st, {i - 1 : i \in DOMAIN buf},
              {self.output_offset + ((buf[i].contra_field_index * m) \div k) + z
                  : i \in DOMAIN buf, z \in 0..(m - 1)},
              UNION {{buf[i].contra_field_index * m + z * k + kk : kk \in FB_Coords(k)}
                     : i \in DOMAIN buf, z \in 0..(m - 1)})

\* myslice.fill(0.0) and the prefetch of the element at position 0
KernelEntered(self) ==
    [idx |-> 0, buffer |-> {0},
     tape |-> self.output_offset
              ..(self.output_offset + self.ffm_num_fields * self.ffm_num_fields - 1),
     contra |-> {}]

BlockFFM_forward_backward_touched(self, fb_, upd) ==
    FB_TouchGradients(self, fb_.ffm_buffer, fb_.ffm_fields_count,
        FB_TouchFields(self, fb_.ffm_buffer, fb_.ffm_fields_count, 0, KernelEntered(self)))

\* BlockFFM::forward: the cells of contra_fields one field writes
Fwd_FieldCells(self, offset) ==
    LET fel == self.ffm_k * self.ffm_num_fields
        field_embedding_len_end == fel - (fel % STEP)
    IN  LaneRange(offset, offset + field_embedding_len_end)
        \cup ScalarRange(offset + field_embedding_len_end, offset + fel)

RECURSIVE Fwd_TouchFeatures(_, _, _, _, _)
Fwd_TouchFeatures(self, buf, m, field_index_ffmk, st) ==
    IF st.idx < Len(buf) /\ buf[st.idx + 1].contra_field_index = field_index_ffmk
    THEN Fwd_TouchFeatures(self, buf, m, field_index_ffmk,
            [Touch(st, {st.idx, st.idx + 1},
                   {self.output_offset
                    + (buf[st.idx + 1].contra_field_index \div self.ffm_k) * (m + 1)},
                   Fwd_FieldCells(self, field_index_ffmk * m))
                EXCEPT !.idx = st.idx + 1])
    ELSE Touch(st, Probe(buf, st.idx), {}, {})

RECURSIVE Fwd_TouchFields(_, _, _, _, _)
Fwd_TouchFields(self, buf, m, field_index, st) ==
    IF field_index >= m THEN st
    ELSE LET field_index_ffmk == field_index * self.ffm_k
             probed == Touch(st, Probe(buf, st.idx), {}, {})
         IN  IF st.idx >= Len(buf) \/ buf[st.idx + 1].contra_field_index > field_index_ffmk
             THEN Fwd_TouchFields(self, buf, m, field_index + 1,
                    Touch(probed, {}, {}, Fwd_FieldCells(self, field_index_ffmk * m)))
             ELSE Fwd_TouchFields(self, buf, m, field_index + 1,
                    Fwd_TouchFeatures(self, buf, m, field_index_ffmk, probed))

\* for f1 in 0..ffm_fields_count, for f2 in f1 + 1..ffm_fields_count
Fwd_TouchInteractions(self, m, st) ==
    LET k == self.ffm_k
        fel == self.ffm_k * self.ffm_num_fields
        run(a) == a..(a + k - 1)
        pairs == {p \in (0..(m - 1)) \X (0..(m - 1)) : p[1] < p[2]}
    IN  Touch(st, {},
              {self.output_offset + f1 * m + f1 : f1 \in 0..(m - 1)}
              \cup {self.output_offset + p[1] * m + p[2] : p \in pairs}
              \cup {self.output_offset + p[2] * m + p[1] : p \in pairs},
              UNION {run(f1 * fel + f1 * k) : f1 \in 0..(m - 1)}
              \cup UNION {run(p[1] * fel + p[1] * k + (p[2] - p[1]) * k) : p \in pairs}
              \cup UNION {run(p[1] * fel + p[1] * k + (p[2] - p[1]) * fel) : p \in pairs})

BlockFFM_forward_touched(self, fb_) ==
    Fwd_TouchInteractions(self, fb_.ffm_fields_count,
        Fwd_TouchFields(self, fb_.ffm_buffer, fb_.ffm_fields_count, 0, KernelEntered(self)))

\* The blocks: (ffm_k, ffm_num_fields, output_offset)
AccessBlocks ==
    {[ffm_k |-> c[1], ffm_num_fields |-> c[2], output_offset |-> c[3]]
     : c \in {<<1, 2, 0>>, <<5, 2, 3>>, <<2, 3, 1>>}}

\* Feature buffers as the translator builds them: the features sorted by
\* field, contra_field_index = field * ffm_k < ffm_fields_count * ffm_k
AccessBuffers(self) ==
    UNION {{[ffm_fields_count |-> m, ffm_buffer |-> b] :
              b \in {s \in [1..n -> {[hash |-> 1, value |-> 1,
                                       contra_field_index |-> f * self.ffm_k]
                                      : f \in 0..(m - 1)}] :
                        \A i \in 1..(n - 1) :
                            s[i].contra_field_index <= s[i + 1].contra_field_index}}
           : n \in 0..MaxAccessFeatures, m \in 1..MaxFieldsCount}

InitAccess ==
    /\ GraphOff /\ LossOff /\ CopyOff /\ InitOff /\ ParserOff /\ HogwildOff /\ ChainOff
    /\ NormOff
    /\ ac_self \in AccessBlocks
    /\ ac_fb \in AccessBuffers(ac_self)
    /\ ac_call = "none"
    /\ ac_buffer = {} /\ ac_tape = {} /\ ac_contra = {}

AccessFrame ==
    UNCHANGED <<graphVars, lossVars, copyVars, initVars, parserVars, hogVars, chainVars,
                normVars, ac_self, ac_fb>>

\* BlockFFM::forward
BlockFFM_forward ==
    /\ ac_call' = "forward"
    /\ LET st == BlockFFM_forward_touched(ac_self, ac_fb)
       IN  ac_buffer' = st.buffer /\ ac_tape' = st.tape /\ ac_contra' = st.contra
    /\ AccessFrame

\* BlockFFM::forward_backward
BlockFFM_forward_backward(upd) ==
    /\ ac_call' = IF upd THEN "forward_backward(update)" ELSE "forward_backward"
    /\ LET st == BlockFFM_forward_backward_touched(ac_self, ac_fb, upd)
       IN  ac_buffer' = st.buffer /\ ac_tape' = st.tape /\ ac_contra' = st.contra
    /\ AccessFrame

NextAccess ==
    \/ BlockFFM_forward
    \/ \E upd \in BOOLEAN : BlockFFM_forward_backward(upd)

SpecAccess == InitAccess /\ [][NextAccess]_vars

\* The output region of the block, and the scratch the block was checked for
OutputRegion ==
    ac_self.output_offset
    ..(ac_self.output_offset + ac_self.ffm_num_fields * ac_self.ffm_num_fields - 1)

ScratchCells == 0..(ac_self.ffm_k * ac_self.ffm_num_fields * ac_self.ffm_num_fields - 1)

KernelRan == ac_call \in {"forward", "forward_backward", "forward_backward(update)"}

\* C23: every tape cell the FFM block writes in forward or forward_backward
\* lies inside its output region [output_offset, output_offset + num_fields^2)
\* and every contra-field scratch cell it touches has an index below
\* k * num_fields^2, for every feature buffer whose features have
\* contra_field_index < ffm_fields_count * k, whatever its ffm_fields_count.
C23_WritesInsideRegion ==
    KernelRan => (ac_tape \subseteq OutputRegion /\ ac_contra \subseteq ScratchCells)

\* The same for buffers that have no more fields than the block
C23_WritesInsideRegionFewerFields ==
    (KernelRan /\ ac_fb.ffm_fields_count <= ac_self.ffm_num_fields)
        => (ac_tape \subseteq OutputRegion /\ ac_contra \subseteq ScratchCells)

\* C24: the FFM kernels never access fb.ffm_buffer at a position >= its
\* length, for every feature buffer, an empty one and the last feature of the
\* buffer included, prefetch addresses included.
C24_BufferAccessInBounds ==
    KernelRan => \A i \in ac_buffer : i < Len(ac_fb.ffm_buffer)

(***************************************************************************)
(* The normalize block (BlockNormalize).  With n = num_inputs, a tape cell *)
(* is [q, pow]: the number (q / n) * variance_inv^pow, variance_inv being  *)
(* the inverse scale of the running call.  variance_inv is 1 / sqrt(r) for *)
(* a rational r = [num, den]; the model carries r, computed as the code    *)
(* computes it, and leaves the root and the reciprocal applied to it       *)
(* symbolic.  EPS = 1e-2 is the rational 1 / EPS_INV.                      *)
(***************************************************************************)
MaxNormInputs == 3

EPS_INV == 100

NormValues == {-2, 0, 1, 3}

NormGradients == {-1, 2}

\* The number x on a tape of a block with n inputs
Plain(n, x) == [q |-> n * x, pow |-> 0]

RECURSIVE SumSeq(_)
SumSeq(s) == IF s = <<>> THEN 0 ELSE Head(s) + SumSeq(Tail(s))

\* The input region of the block, as numbers
NormInputs(self, tp) ==
    [i \in 1..self.num_inputs |-> tp[self.input_offset + i].q \div self.num_inputs]

\* mean, meansq, variance, `variance += EPS`, `variance /= num_inputs`: the
\* number whose root is taken.  mean is sum / n, meansq - x is
\* (sum^2 - n^2 * x) / n^2
variance(self, x) ==
    LET n == self.num_inputs
        sum == SumSeq(x)
        squares == SumSeq([i \in 1..n |-> (sum * sum - n * n * x[i]) * (sum * sum - n * n * x[i])])
    IN  [num |-> EPS_INV * squares + n * n * n * n, den |-> EPS_INV * n * n * n * n * n]

\* (input - mean) * variance_inv
centred_times_variance_inv(self, x, i) ==
    [q |-> self.num_inputs * x[i] - SumSeq(x), pow |-> 1]

\* input * var3
input_times_variance_inv(self, x, i) == [q |-> self.num_inputs * x[i], pow |-> 1]

\* output * variance_inv
times_variance_inv(cell) == [cell EXCEPT !.pow = @ + 1]

NormBlocks ==
    {[num_inputs |-> n, input_offset |-> 0, output_offset |-> n] : n \in 1..MaxNormInputs}

InitNormalize ==
    /\ GraphOff /\ LossOff /\ CopyOff /\ InitOff /\ ParserOff /\ HogwildOff /\ ChainOff
    /\ AccessOff
    /\ nm_self \in NormBlocks
    /\ \E x \in [1..nm_self.num_inputs -> NormValues] :
          nm_tape = [c \in 1..(2 * nm_self.num_inputs) |->
                        IF c <= nm_self.num_inputs THEN Plain(nm_self.num_inputs, x[c])
                        ELSE Plain(nm_self.num_inputs, 0)]
    /\ nm_pc = "idle"
    /\ nm_update = FALSE
    /\ nm_variance_inv = <<>>
    /\ nm_entry = <<>>

NormalizeFrame ==
    UNCHANGED <<graphVars, lossVars, copyVars, initVars, parserVars, hogVars, chainVars,
                accessVars, nm_self>>

\* BlockNormalize::forward
BlockNormalize_forward ==
    /\ nm_pc = "idle"
    /\ LET x == NormInputs(nm_self, nm_tape)
       IN  /\ nm_variance_inv' = variance(nm_self, x)
           /\ nm_tape' = [c \in DOMAIN nm_tape |->
                            IF c > nm_self.output_offset
                            THEN input_times_variance_inv(nm_self, x, c - nm_self.output_offset)
                            ELSE nm_tape[c]]
    /\ nm_pc' = "forward"
    /\ nm_entry' = nm_tape
    /\ UNCHANGED nm_update
    /\ NormalizeFrame

\* BlockNormalize::forward_backward up to the call of the further blocks
BlockNormalize_forward_backward(upd) ==
    /\ nm_pc = "idle"
    /\ LET x == NormInputs(nm_self, nm_tape)
       IN  /\ nm_variance_inv' = variance(nm_self, x)
           /\ nm_tape' = [c \in DOMAIN nm_tape |->
                            IF c > nm_self.output_offset
                            THEN centred_times_variance_inv(nm_self, x, c - nm_self.output_offset)
                            ELSE nm_tape[c]]
    /\ nm_pc' = "further_blocks"
    /\ nm_update' = upd
    /\ nm_entry' = nm_tape
    /\ NormalizeFrame

\* The further blocks: with update they leave a gradient in the output
\* region of the block, without it they leave the region as it is
Normalize_further_blocks ==
    /\ nm_pc = "further_blocks"
    /\ IF nm_update
       THEN \E g \in [1..nm_self.num_inputs -> NormGradients] :
               nm_tape' = [c \in DOMAIN nm_tape |->
                            IF c > nm_self.output_offset
                            THEN Plain(nm_self.num_inputs, g[c - nm_self.output_offset])
                            ELSE nm_tape[c]]
       ELSE nm_tape' = nm_tape
    /\ nm_pc' = "returned"
    /\ UNCHANGED <<nm_update, nm_variance_inv, nm_entry>>
    /\ NormalizeFrame

\* BlockNormalize::forward_backward after the further blocks returned
BlockNormalize_backward ==
    /\ nm_pc = "returned"
    /\ nm_tape' = IF nm_update
                  THEN [c \in DOMAIN nm_tape |->
                          IF c <= nm_self.num_inputs
                          THEN times_variance_inv(nm_tape[nm_self.output_offset + c])
                          ELSE nm_tape[c]]
                  ELSE nm_tape
    /\ nm_pc' = "forward_backward"
    /\ UNCHANGED <<nm_update, nm_variance_inv, nm_entry>>
    /\ NormalizeFrame

NextNormalize ==
    \/ BlockNormalize_forward
    \/ \E upd \in BOOLEAN : BlockNormalize_forward_backward(upd)
    \/ Normalize_further_blocks
    \/ BlockNormalize_backward

SpecNormalize == InitNormalize /\ [][NextNormalize]_vars

\* r is (sum_i (mean^2 - input_i)^2 + eps) / n for the inputs x, with
\* mean = sum / n: sum_i (mean^2 - x_i)^2 is squares / n^4
IsScaleOf(r, x) ==
    LET n == Len(x)
        sum == SumSeq(x)
        squares == SumSeq([i \in 1..n |-> (sum * sum - n * n * x[i]) * (sum * sum - n * n * x[i])])
    IN  /\ r.num = EPS_INV * squares + n * n * n * n
        /\ r.den = EPS_INV * n * n * n * n * n

EntryInputs == NormInputs(nm_self, nm_entry)

\* Output cell i holds input_i * s
OutputsAreScaledInputs ==
    \A i \in 1..nm_self.num_inputs :
        nm_tape[nm_self.output_offset + i] = [q |-> nm_self.num_inputs * EntryInputs[i], pow |-> 1]

\* C25: for the same input region the normalize block writes the same
\* outputs in forward and in forward_backward, output_i = input_i * s with
\* s = 1 / sqrt((sum_i (mean^2 - input_i)^2 + eps) / n), and on backward it
\* writes input_i = gradient_i * s with the same s.
C25_SameOutputsBothPasses ==
    /\ nm_pc \in {"forward", "further_blocks"} =>
          (IsScaleOf(nm_variance_inv, EntryInputs) /\ OutputsAreScaledInputs)
    /\ (nm_pc = "forward_backward" /\ nm_update) =>
          \A i \in 1..nm_self.num_inputs :
              nm_tape[i] = [nm_tape[nm_self.output_offset + i] EXCEPT !.pow = @ + 1]

\* What holds: the prediction pass writes input_i * s, the training pass
\* writes (input_i - mean) * s with the same s, and the backward step writes
\* gradient_i * s
C25_TrainingPassCentres ==
    /\ nm_pc \in {"forward", "further_blocks"} => IsScaleOf(nm_variance_inv, EntryInputs)
    /\ nm_pc = "forward" => OutputsAreScaledInputs
    /\ nm_pc = "further_blocks" =>
          \A i \in 1..nm_self.num_inputs :
              nm_tape[nm_self.output_offset + i] =
                  [q |-> nm_self.num_inputs * EntryInputs[i] - SumSeq(EntryInputs), pow |-> 1]
    /\ (nm_pc = "forward_backward" /\ nm_update) =>
          \A i \in 1..nm_self.num_inputs :
              nm_tape[i] = [nm_tape[nm_self.output_offset + i] EXCEPT !.pow = @ + 1]

(***************************************************************************)
(* Properties of the neuron layer: dropout and max-norm.                   *)
(***************************************************************************)
\* bias_j + sum_i w_ij * x_i on the weights w and the inputs on the tape
FullSum(w, j) ==
    w[NL_bias_offset(mi) + j]
    + SumFn([i \in 0..(mi.num_inputs - 1) |-> tape[i] * w[i + j * mi.num_inputs]])

\* The dropout coin of neuron j for the example at hand: a function of the
\* neuron index and the example number
Dropped(j) ==
    mi.dropout # 0 /\ merand48(j + fb.example_number * fb.example_number) <= mi.dropout

Neurons == 0..(mi.num_neurons - 1)

\* The forward part of the layer has run
LayerForwardDone == mi.graph = "nl" /\ pc = "fb_loss"

\* During training a dropped neuron outputs 0 and is skipped by the backward
\* step, the other neurons output their full sum
TrainingMask ==
    /\ (LayerForwardDone /\ update) =>
          \A j \in Neurons : tape[mi.num_inputs + j] = IF Dropped(j) THEN 0 ELSE FullSum(weights, j)
    /\ (AfterLearn /\ mi.graph = "nl") =>
          \A j \in Neurons : Dropped(j) =>
              /\ weights[NL_bias_offset(mi) + j] = w_entry[NL_bias_offset(mi) + j]
              /\ \A i \in 0..(mi.num_inputs - 1) :
                    weights[i + j * mi.num_inputs] = w_entry[i + j * mi.num_inputs]

\* C26: with dropout rate p, during inference (update = false) no neuron is
\* dropped, every output j being (1 - p) * (bias_j + sum_i w_ij * x_i) for
\* every example number; during training the dropped neurons are a function
\* of (neuron index, example number), skipped in the forward and in the
\* backward step alike.
C26_InferenceDropsNoNeuron ==
    /\ (LayerForwardDone /\ ~update) =>
          \A j \in Neurons :
              tape[mi.num_inputs + j] =
                  (FullSum(weights, j) * (RandOne - mi.dropout)) \div RandOne
    /\ TrainingMask

\* What holds: the training half, and during inference (1 - p) times the
\* full sum for the neurons the coin keeps, 0 for those it drops
C26_InferenceDropsByTheSameCoin ==
    /\ (LayerForwardDone /\ ~update) =>
          \A j \in Neurons :
              tape[mi.num_inputs + j] =
                  IF Dropped(j) THEN 0
                  ELSE (FullSum(weights, j) * (RandOne - mi.dropout)) \div RandOne
    /\ TrainingMask

\* The squared L2 norm of the input weights of neuron j
NormSquared(w, j) ==
    SumFn([i \in 0..(mi.num_inputs - 1) |-> w[i + j * mi.num_inputs] * w[i + j * mi.num_inputs]])

\* The weights the training pass leaves when the layer has no max-norm
Unscaled ==
    NL_backward([mi EXCEPT !.max_norm = 0], fb,
                [i \in 0..(mi.num_inputs - 1) |-> mi.consts[i + 1]] @@ tape,
                TRUE, w_entry, opt_entry).weights

\* A training pass of a layer with max-norm has returned
MaxNormTrained == AfterLearn /\ mi.graph = "nl" /\ mi.max_norm # 0

\* On an example whose number is not a multiple of 10 no weight is rescaled
NothingRescaledOffTen ==
    (MaxNormTrained /\ fb.example_number % 10 # 0) => weights = Unscaled

\* C27: with max_norm != 0, after a training pass on an example whose number
\* is a multiple of 10 every neuron of the layer has an input-weight vector
\* of L2 norm at most max_norm; on the other examples no weight is rescaled.
C27_EveryNeuronWithinMaxNorm ==
    /\ (MaxNormTrained /\ fb.example_number % 10 = 0) =>
          \A j \in Neurons : NormSquared(weights, j) <= mi.max_norm * mi.max_norm
    /\ NothingRescaledOffTen

\* What holds: the neurons that dropout keeps on that example are within
\* max_norm, those whose norm exceeded it having been scaled down by
\* max_norm / norm; the dropped neurons keep the weights they had.
C27_KeptNeuronsWithinMaxNorm ==
    /\ (MaxNormTrained /\ fb.example_number % 10 = 0) =>
          \A j \in Neurons :
              IF Dropped(j)
              THEN NormSquared(weights, j) = NormSquared(w_entry, j)
              ELSE /\ NormSquared(weights, j) <= mi.max_norm * mi.max_norm
                   /\ NormSquared(Unscaled, j) <= mi.max_norm * mi.max_norm =>
                         \A i \in 0..(mi.num_inputs - 1) :
                             weights[i + j * mi.num_inputs] = Unscaled[i + j * mi.num_inputs]
                   /\ NormSquared(Unscaled, j) > mi.max_norm * mi.max_norm =>
                         \A i \in 0..(mi.num_inputs - 1) :
                             LET w == weights[i + j * mi.num_inputs]
                                 u == Unscaled[i + j * mi.num_inputs]
                                 norm == ISqrtUp(NormSquared(Unscaled, j))
                             IN  /\ w * u >= 0
                                 /\ w * w * norm * norm <= u * u * mi.max_norm * mi.max_norm
                                 /\ u * u * mi.max_norm * mi.max_norm
                                       < (w * w + 2 * (IF w < 0 THEN 0 - w ELSE w) + 1) * norm * norm
    /\ NothingRescaledOffTen

\* A training pass on a multiple of 10 has scaled a neuron down to max_norm
C27_Witness ==
    /\ MaxNormTrained /\ fb.example_number % 10 = 0
    /\ \E j \in Neurons :
          /\ ~Dropped(j)
          /\ NormSquared(Unscaled, j) > mi.max_norm * mi.max_norm
          /\ NormSquared(weights, j) <= mi.max_norm * mi.max_norm
          /\ NormSquared(weights, j) > 0

(***************************************************************************)
(* Properties of the tapes of a port buffer.                               *)
(***************************************************************************)
\* The loss block was entered with an empty output tape and has returned
LossReturned == sg_pc # "idle"

\* C28: after forward_backward or forward returns on a chain of const, copy,
\* result and logistic-loss blocks every tape of the port buffer has exactly
\* the length it had before the call; only the results sequence grows.
C28_TapeLengthsKept ==
    LossReturned =>
        /\ Len(sg_in) = Len(sg_entry)
        /\ Len(sg_out) = 0
        /\ Len(sg_results) = 1

\* What holds for the loss block: its input tape keeps its length, its
\* output tape and the results grow by the prediction
C28_LossOutputTapeGrows ==
    LossReturned =>
        /\ Len(sg_in) = Len(sg_entry)
        /\ Len(sg_out) = 1
        /\ sg_results = sg_out

\* What holds for const, copy and result blocks: between any two calls both
\* tapes are as short as before the first call, and inside a call the copy
\* block's output tape is as long as its input tape or empty
C28_CopyChainKeepsLengths ==
    /\ cp_pc = "idle" => (cp_in = <<>> /\ cp_out = <<>>)
    /\ cp_pc \notin {"idle", "consts_back"} => Len(cp_in) = Len(cp_cfg.consts)
    /\ Len(cp_out) \in {0, Len(cp_in)}

(***************************************************************************)
(* Properties of the input regions when nothing is learned.                *)
(***************************************************************************)
\* The forward value block i computes from the input x
ForwardValue(i, x) ==
    IF ch_blocks[i] = "BlockLeakyRELU" /\ x.sign < 0 THEN ValMul(ValAlpha, x) ELSE x

\* A call with update = false has returned
PredictionReturned == ch_phase = "done" /\ ~ch_update

\* C29: with update = false forward_backward leaves every block's input
\* region holding the forward values it held when the block was entered, no
\* block writing a gradient, slope or other value into it: after the call
\* every region is still the forward value of the region before it.
C29_InputRegionsKeepForwardValues ==
    PredictionReturned =>
        \A i \in DOMAIN ch_blocks :
            ch_tape[output_offset(i)] = ForwardValue(i, ch_tape[input_offset(i)])

\* What holds: the stop-gradient block leaves its input region alone, the
\* leaky ReLU block leaves its slope (alpha or 1) in it
C29_LeakyRELULeavesSlope ==
    PredictionReturned =>
        \A i \in DOMAIN ch_blocks :
            IF ch_blocks[i] = "BlockLeakyRELU"
            THEN ch_tape[input_offset(i)] \in {ValAlpha, ValOne}
            ELSE ch_tape[output_offset(i)] = ch_tape[input_offset(i)]
                 \/ (i < Len(ch_blocks) /\ ch_blocks[i + 1] = "BlockLeakyRELU")

(***************************************************************************)
(* The parser's result as a function of the line.                          *)
(***************************************************************************)
\* The line with the newline a last line may lack
WithNewline(l) == IF l = <<>> \/ Terminated(l) THEN l ELSE l \o NL

\* C30: the result next_vowpal returns for a line depends only on that line
\* and the namespace map, whatever lines were parsed before (examples,
\* control lines, rejected lines, spilled features), a last line without a
\* trailing newline being parsed like the same line with one.
C30_ResultDependsOnLineOnly ==
    ps_call = "next_vowpal" => ps_result = NextVowpalResult(WithNewline(ps_src))

\* What holds: the result is that of a parser that has parsed nothing
\* before, on the bytes read, newline or none
C30_ResultDependsOnBytesReadOnly ==
    ps_call = "next_vowpal" => ps_result = NextVowpalResult(ps_src)

\* A second line was parsed after a first one left spilled features, or an
\* error, behind
C30_SecondLineParsed ==
    /\ ps_call = "next_vowpal" /\ ps_input.lines = <<>> /\ ps_src \in SecondLines
    /\ ps_result.kind = "Ok" /\ ps_prev # <<>>
    /\ ps_prev.kind = "Err" \/ Len(ps_prev.buffer) > vw_map.num_namespaces + HEADER_LEN

====
